---- MODULE Spec2Model ----
(***************************************************************************)
(* A model of pychain's expression builder (Op, ChainableOp) and of its    *)
(* lazy wrappers (Struct, Iter, SeqMut).                                   *)
(*                                                                         *)
(*   Op / BaseExpr / Struct expression : src/src/pychain/_mod.pyx          *)
(*   ChainableOp                       : src/src/pychain/_exprs/_mod.pyx   *)
(*   Struct wrapper                    : src/src/pychain/_struct/_mod.pyx  *)
(*   Iter wrapper                      : src/unnamed/part_013              *)
(*   cytoolz primitives                : src/typings/cytoolz/*.pyi         *)
(*                                                                         *)
(* Python objects live in heaps (sequences indexed by object identity), so *)
(* that "returns self" and "returns a new object" are different things.    *)
(***************************************************************************)
EXTENDS Integers, Sequences, FiniteSets, TLC

VARIABLES
    ops,      \* heap of expression objects (Op and ChainableOp instances)
    chain,    \* history: for each expression, the steps chained on it, in call order
    call,     \* the last call p(x) of an expression: receiver, argument, outcome
    data,     \* heap of the dict and list objects handed to wrappers (identity -> contents)
    wrappers, \* heap of Struct / Iter wrappers and Struct expressions: _value, _pipeline
    made,     \* history: one event per constructor and chaining call on a wrapper
    ret,      \* what the last unwrap() or expression call returned
    iters,    \* heap of iterator objects (count, list iterator, map, filter, islice)
    run,      \* one Iter expression: its steps, the iterator it returned, what list() consumed
    seq       \* one Iter expression consumed whole: its steps, its source, what to_list() gave

vars == <<ops, chain, call, data, wrappers, made, ret, iters, run, seq>>

opVars == <<ops, chain, call>>
structVars == <<data, wrappers, made, ret>>
lazyVars == <<iters, run, seq>>

-----------------------------------------------------------------------------
(* Bounds of the exploration.                                              *)

\* Expression objects, and steps composed into ChainableOps, in one run.
MaxObjs == 3

\* Wrapper objects (Struct, Iter, Struct expression), and steps in their
\* pipelines, in one run.
MaxWrappers == 4

\* Elements of a list handed to an Iter expression, steps chained on the
\* expression, and the n of head(n).
MaxLen == 2

-----------------------------------------------------------------------------
(* Python values.  Every value is a record of the same shape:              *)
(*   t : the type, or the exception type when evaluation raised            *)
(*   n, d : a number n/d in lowest terms (d > 0); bools are 0/1            *)
(*   s : the characters of a str, as code points                           *)

PyInt(i)   == [t |-> "int",   n |-> i, d |-> 1, s |-> <<>>]
PyBool(b)  == [t |-> "bool",  n |-> IF b THEN 1 ELSE 0, d |-> 1, s |-> <<>>]
PyStr(cs)  == [t |-> "str",   n |-> 0, d |-> 1, s |-> cs]
Raise(e) == [t |-> e,       n |-> 0, d |-> 1, s |-> <<>>]

TypeError == Raise("TypeError")
ZeroDivisionError == Raise("ZeroDivisionError")
\* A float power with a fractional exponent: outside the numbers modelled here.
Unmodelled == Raise("Unmodelled")

IsNum(v) == v.t \in {"int", "bool", "float"}
IsIntLike(v) == v.t \in {"int", "bool"}
IsStr(v) == v.t = "str"
IsRaise(v) == v.t \in {"TypeError", "ZeroDivisionError", "ValueError", "Unmodelled"}

Abs(i) == IF i < 0 THEN -i ELSE i

RECURSIVE Gcd(_, _)
Gcd(a, b) == IF b = 0 THEN a ELSE Gcd(b, a % b)

\* floor(n / d) for d > 0.
Floor(n, d) == IF n >= 0 THEN n \div d ELSE -((-n + d - 1) \div d)

\* The float n/d, d # 0, in lowest terms with a positive denominator.
PyFloat(n, d) ==
    LET sn == IF d < 0 THEN -n ELSE n
        sd == Abs(d)
        g == Gcd(Abs(sn), sd)
    IN [t |-> "float", n |-> sn \div g, d |-> sd \div g, s |-> <<>>]

\* The numeric result n/d of an operation on a and b: an int when both operands
\* are ints (or bools), a float otherwise.
Num(a, b, n, d) == IF IsIntLike(a) /\ IsIntLike(b) /\ d = 1 THEN PyInt(n) ELSE PyFloat(n, d)

RECURSIVE Repeat(_, _)
Repeat(cs, k) == IF k <= 0 THEN <<>> ELSE cs \o Repeat(cs, k - 1)

RECURSIVE IPow(_, _)
IPow(b, e) == IF e = 0 THEN 1 ELSE b * IPow(b, e - 1)

\* a + b
PyAdd(a, b) ==
    IF IsNum(a) /\ IsNum(b) THEN Num(a, b, a.n * b.d + b.n * a.d, a.d * b.d)
    ELSE IF IsStr(a) /\ IsStr(b) THEN PyStr(a.s \o b.s)
    ELSE TypeError

\* a - b
PySub(a, b) ==
    IF IsNum(a) /\ IsNum(b) THEN Num(a, b, a.n * b.d - b.n * a.d, a.d * b.d)
    ELSE TypeError

\* a * b
PyMul(a, b) ==
    IF IsNum(a) /\ IsNum(b) THEN Num(a, b, a.n * b.n, a.d * b.d)
    ELSE IF IsStr(a) /\ IsIntLike(b) THEN PyStr(Repeat(a.s, b.n))
    ELSE IF IsIntLike(a) /\ IsStr(b) THEN PyStr(Repeat(b.s, a.n))
    ELSE TypeError

\* a / b
PyTrueDiv(a, b) ==
    IF IsNum(a) /\ IsNum(b)
    THEN IF b.n = 0 THEN ZeroDivisionError ELSE PyFloat(a.n * b.d, a.d * b.n)
    ELSE TypeError

\* floor(a / b) as an integer, for numbers a and b # 0.
FloorQuot(a, b) ==
    LET n == a.n * b.d
        d == a.d * b.n
    IN Floor(IF d < 0 THEN -n ELSE n, Abs(d))

\* a // b
PyFloorDiv(a, b) ==
    IF IsNum(a) /\ IsNum(b)
    THEN IF b.n = 0 THEN ZeroDivisionError ELSE Num(a, b, FloorQuot(a, b), 1)
    ELSE TypeError

\* a % b.  A str on the left is %-formatting; the strs of this model hold no
\* conversion specifier, so formatting any argument raises TypeError.
PyMod(a, b) ==
    IF IsNum(a) /\ IsNum(b)
    THEN IF b.n = 0 THEN ZeroDivisionError
         ELSE LET q == FloorQuot(a, b)
              IN Num(a, b, a.n * b.d - q * b.n * a.d, a.d * b.d)
    ELSE TypeError

\* a ** b
PyPow(a, b) ==
    IF IsNum(a) /\ IsNum(b)
    THEN IF b.d # 1 THEN Unmodelled
         ELSE IF b.n >= 0 THEN Num(a, b, IPow(a.n, b.n), IPow(a.d, b.n))
         ELSE IF a.n = 0 THEN ZeroDivisionError
         ELSE PyFloat(IPow(a.d, -b.n), IPow(a.n, -b.n))
    ELSE TypeError

\* -a
PyNeg(a) == IF IsNum(a) THEN Num(a, a, -a.n, a.d) ELSE TypeError

RECURSIVE LexLess(_, _)
LexLess(x, y) ==
    IF y = <<>> THEN FALSE
    ELSE IF x = <<>> THEN TRUE
    ELSE IF Head(x) # Head(y) THEN Head(x) < Head(y)
    ELSE LexLess(Tail(x), Tail(y))

\* a < b
PyLt(a, b) ==
    IF IsNum(a) /\ IsNum(b) THEN PyBool(a.n * b.d < b.n * a.d)
    ELSE IF IsStr(a) /\ IsStr(b) THEN PyBool(LexLess(a.s, b.s))
    ELSE TypeError

\* a <= b
PyLe(a, b) ==
    IF IsNum(a) /\ IsNum(b) THEN PyBool(a.n * b.d <= b.n * a.d)
    ELSE IF IsStr(a) /\ IsStr(b) THEN PyBool(~LexLess(b.s, a.s))
    ELSE TypeError

\* a > b
PyGt(a, b) ==
    IF IsNum(a) /\ IsNum(b) THEN PyBool(a.n * b.d > b.n * a.d)
    ELSE IF IsStr(a) /\ IsStr(b) THEN PyBool(LexLess(b.s, a.s))
    ELSE TypeError

\* a >= b
PyGe(a, b) ==
    IF IsNum(a) /\ IsNum(b) THEN PyBool(a.n * b.d >= b.n * a.d)
    ELSE IF IsStr(a) /\ IsStr(b) THEN PyBool(~LexLess(a.s, b.s))
    ELSE TypeError

\* a == b: numbers compare by value across int, bool and float.
PyEq(a, b) ==
    IF IsNum(a) /\ IsNum(b) THEN PyBool(a.n * b.d = b.n * a.d)
    ELSE IF IsStr(a) /\ IsStr(b) THEN PyBool(a.s = b.s)
    ELSE PyBool(FALSE)

\* bool(a)
Truthy(a) == IF IsNum(a) THEN a.n # 0 ELSE Len(a.s) > 0

\* b in a, for a list a.
PyContains(a, b) == PyBool(\E i \in DOMAIN a : PyEq(a[i], b).n = 1)

-----------------------------------------------------------------------------
(* Steps: the unary callables that the chaining methods hand to _do.       *)
(*   m  : the method that built the callable                               *)
(*   v  : the bound operand (value)                                        *)
(*   vs : the bound container (values) of is_in / is_not_in                *)
(*   g  : the user callable given to into()                                *)

NoVal == PyInt(0)
Step(m, v) == [m |-> m, v |-> v, vs |-> <<>>, g |-> ""]
StepIn(m, vs) == [m |-> m, v |-> NoVal, vs |-> vs, g |-> ""]
StepInto(g) == [m |-> "into", v |-> NoVal, vs |-> <<>>, g |-> g]
NoStep == Step("", NoVal)

\* int(x) and bool(x).  The strs of the model hold letters only.
PyIntOf(x) ==
    CASE IsIntLike(x) -> PyInt(x.n)
      [] x.t = "float" -> PyInt(IF x.n >= 0 THEN x.n \div x.d ELSE -((-x.n) \div x.d))
      [] IsStr(x) -> Raise("ValueError")
PyBoolOf(x) == PyBool(Truthy(x))

\* Callables handed to into(): lambda x: x + 1, lambda x: x * 2, the types
\* int and bool, and lambda x: 0.
UserCall(g, x) ==
    CASE g = "inc" -> PyAdd(x, PyInt(1))
      [] g = "dbl" -> PyMul(x, PyInt(2))
      [] g = "int" -> PyIntOf(x)
      [] g = "bool" -> PyBoolOf(x)
      [] g = "zero" -> PyInt(0)

\* Predicates handed to filter and filter_on_key: lambda x: x % 2 == 1.
UserCheck(p, x) ==
    CASE p = "odd" -> PyBool(x.n % 2 = 1)

(* The callables built by Op's methods, applied to the chain's value x.    *)
(* partial(f, value)(x) is f(value, x).                                     *)

\* partial(opr.add, value)
Op_add(value, x) == PyAdd(value, x)
\* lambda x: opr.sub(x, value)
Op_sub(value, x) == PySub(x, value)
\* partial(opr.mul, value)
Op_mul(value, x) == PyMul(value, x)
\* lambda x: opr.truediv(x, value)
Op_truediv(value, x) == PyTrueDiv(x, value)
\* lambda x: opr.floordiv(x, value)
Op_floordiv(value, x) == PyFloorDiv(x, value)
\* lambda x: opr.mod(x, value)
Op_mod(value, x) == PyMod(x, value)
\* lambda x: opr.pow(x, value)
Op_pow(value, x) == PyPow(x, value)

\* sub_r with the operands the other way round: x - value
Op_sub_r_swapped(value, x) == PySub(x, value)
\* partial(opr.sub, value)
Op_sub_r(value, x) == PySub(value, x)
\* partial(opr.truediv, value)
Op_truediv_r(value, x) == PyTrueDiv(value, x)
\* partial(opr.floordiv, value)
Op_floordiv_r(value, x) == PyFloorDiv(value, x)
\* partial(opr.mod, value)
Op_mod_r(value, x) == PyMod(value, x)
\* partial(opr.pow, value)
Op_pow_r(value, x) == PyPow(value, x)

\* opr.neg
Op_neg(x) == PyNeg(x)
\* opr.truth
Op_is_true(x) == PyBool(Truthy(x))
\* partial(opr.contains, values)
Op_is_in(values, x) == PyContains(values, x)
\* lambda x: not opr.contains(values, x)
Op_is_not_in(values, x) == PyBool(PyContains(values, x).n = 0)
\* partial(opr.eq, value)
Op_eq(value, x) == PyEq(value, x)
\* partial(opr.ne, value)
Op_ne(value, x) == PyBool(PyEq(value, x).n = 0)

\* gt built on opr.gt, without the reversal: value > x
Op_gt_unreversed(value, x) == PyGt(value, x)
\* partial(opr.lt, value)
Op_gt(value, x) == PyLt(value, x)
\* partial(opr.le, value)
Op_ge(value, x) == PyLe(value, x)
\* partial(opr.gt, value)
Op_lt(value, x) == PyGt(value, x)
\* partial(opr.ge, value)
Op_le(value, x) == PyGe(value, x)

\* Calling the step f on x.
ApplyStep(f, x) ==
    CASE f.m = "add" -> Op_add(f.v, x)
      [] f.m = "sub" -> Op_sub(f.v, x)
      [] f.m = "mul" -> Op_mul(f.v, x)
      [] f.m = "truediv" -> Op_truediv(f.v, x)
      [] f.m = "floordiv" -> Op_floordiv(f.v, x)
      [] f.m = "mod" -> Op_mod(f.v, x)
      [] f.m = "pow" -> Op_pow(f.v, x)
      [] f.m = "sub_r" -> Op_sub_r(f.v, x)
      [] f.m = "truediv_r" -> Op_truediv_r(f.v, x)
      [] f.m = "floordiv_r" -> Op_floordiv_r(f.v, x)
      [] f.m = "mod_r" -> Op_mod_r(f.v, x)
      [] f.m = "pow_r" -> Op_pow_r(f.v, x)
      [] f.m = "neg" -> Op_neg(x)
      [] f.m = "is_true" -> Op_is_true(x)
      [] f.m = "is_in" -> Op_is_in(f.vs, x)
      [] f.m = "is_not_in" -> Op_is_not_in(f.vs, x)
      [] f.m = "eq" -> Op_eq(f.v, x)
      [] f.m = "ne" -> Op_ne(f.v, x)
      [] f.m = "gt" -> Op_gt(f.v, x)
      [] f.m = "ge" -> Op_ge(f.v, x)
      [] f.m = "lt" -> Op_lt(f.v, x)
      [] f.m = "le" -> Op_le(f.v, x)
      [] f.m = "into" -> UserCall(f.g, x)

-----------------------------------------------------------------------------
(* Expression objects.  An object's _pipeline is one of                    *)
(*   "identity" : ftz.identity                                             *)
(*   "do"       : the closure _new_pipeline of BaseExpr._do, which holds   *)
(*                the receiver `self` (by reference) and the step f        *)
(*   "and"      : the closure _new_pipeline of Op.and_, which holds the    *)
(*                receiver `self` and the tuple `others` (by reference)    *)
(*   "fn"       : a function value built by fn.compose (ChainableOp)       *)

Obj(cls, kind, self, f, others, fn) ==
    [cls |-> cls, kind |-> kind, self |-> self, f |-> f, others |-> others, fn |-> fn]

\* fn.identity, and fn.compose(g, f) for a function value g and a callable f:
\* function values are the steps they apply, first step first.
fn_identity == <<>>
fn_compose(g, f) == Append(g, f)

\* Applying the steps fs to x, first step first; an exception raised by a step
\* ends the evaluation.
RECURSIVE FoldSteps(_, _)
FoldSteps(fs, x) ==
    IF fs = <<>> \/ IsRaise(x) THEN x
    ELSE FoldSteps(Tail(fs), ApplyStep(Head(fs), x))

RECURSIVE Eval(_, _, _), AllChecks(_, _, _)

\* _new_pipeline composed the other way round: self._pipeline(f(value))
BaseExpr_do_new_pipeline_reversed(heap, o, value) ==
    LET r == ApplyStep(o.f, value)
    IN IF IsRaise(r) THEN r ELSE Eval(heap, o.self, r)

\* BaseExpr._do._new_pipeline: f(self._pipeline(value))
BaseExpr_do_new_pipeline(heap, o, value) ==
    LET r == Eval(heap, o.self, value)
    IN IF IsRaise(r) THEN r ELSE ApplyStep(o.f, r)

\* all(check(value) for check in checks): the checks are called in order, on
\* `value`, until one returns a false value or raises.
AllChecks(heap, checks, value) ==
    IF checks = <<>> THEN PyBool(TRUE)
    ELSE LET r == Eval(heap, Head(checks), value)
         IN IF IsRaise(r) THEN r
            ELSE IF ~Truthy(r) THEN PyBool(FALSE)
            ELSE AllChecks(heap, Tail(checks), value)

\* and_ with the other checks fed the receiver's output instead of `value`
Op_and_new_pipeline_chained(heap, o, value) ==
    LET r == Eval(heap, o.self, value)
    IN IF IsRaise(r) THEN r
       ELSE IF ~Truthy(r) THEN PyBool(FALSE)
       ELSE AllChecks(heap, o.others, r)

\* Op.and_._new_pipeline: all_checks = (self,) + others
Op_and_new_pipeline(heap, o, value) == AllChecks(heap, <<o.self>> \o o.others, value)

\* BaseExpr.__call__ / ChainableOp.__call__: self._pipeline(value)
Eval(heap, p, value) ==
    LET o == heap[p]
    IN CASE o.kind = "identity" -> value
         [] o.kind = "do" -> BaseExpr_do_new_pipeline(heap, o, value)
         [] o.kind = "and" -> Op_and_new_pipeline(heap, o, value)
         [] o.kind = "fn" -> FoldSteps(o.fn, value)

\* BaseExpr._do: a new instance of the receiver's class around _new_pipeline.
BaseExpr_do(heap, self, f) ==
    Append(heap, Obj(heap[self].cls, "do", self, f, <<>>, <<>>))

\* Op.and_: a new instance around the and-closure.
Op_and_(heap, self, others) ==
    Append(heap, Obj(heap[self].cls, "and", self, NoStep, others, <<>>))

\* ChainableOp._do: self._pipeline = fn.compose(self._pipeline, f); return self
ChainableOp_do(heap, self, f) ==
    [heap EXCEPT ![self].fn = fn_compose(@, f)]

\* Op.hint, ChainableOp.hint: return self.  The heap after the call and the
\* object returned.
Op_hint_converting(heap, self, dtype) ==
    <<BaseExpr_do(heap, self, StepInto(dtype)), Len(heap) + 1>>

Op_hint(heap, self, dtype) ==
    <<heap, self>>

-----------------------------------------------------------------------------
(* The values the exploration draws operands and inputs from.              *)

\* "a" and "b"
StrA == PyStr(<<97>>)
StrB == PyStr(<<98>>)

Operands == {PyInt(2), StrB}
Inputs == {PyInt(1), PyInt(3), StrA}
Containers == {<<PyInt(1), PyInt(2)>>}

\* The steps chained in the exploration of pipelines.
ChainSteps ==
    {Step("add", v) : v \in Operands}
    \cup {Step("mul", PyInt(2)), Step("gt", PyInt(2))}
    \cup {StepIn("is_in", c) : c \in Containers}
    \cup {StepInto("inc")}

NoCall == [obj |-> 0, arg |-> NoVal, out |-> NoVal, hint |-> ""]
Types == {"int", "bool"}

\* What a heap of expressions holds: its objects and the steps composed into
\* the ChainableOps' pipelines.
RECURSIVE Size(_)
Size(heap) == IF heap = <<>> THEN 0 ELSE 1 + Len(Head(heap).fn) + Size(Tail(heap))

Ids == DOMAIN ops

-----------------------------------------------------------------------------
(* Operations of the expression builder.                                   *)

\* op(): OpConstructor.__call__ returns Op(ftz.identity)
OpConstructor(cls) ==
    /\ Size(ops) < MaxObjs
    /\ ops' = Append(ops, Obj(cls, IF cls = "Op" THEN "identity" ELSE "fn", 0, NoStep, <<>>, fn_identity))
    /\ chain' = Append(chain, [root |-> Len(ops) + 1, steps |-> <<>>])
    /\ UNCHANGED <<call, structVars, lazyVars>>

\* p.add(v), p.mul(v), p.gt(v), p.is_in(vs), p.into(g), ... on an Op: self._do(f)
OpMethod(p, f) ==
    /\ ops[p].cls = "Op"
    /\ Size(ops) < MaxObjs
    /\ ops' = BaseExpr_do(ops, p, f)
    /\ chain' = Append(chain, [root |-> chain[p].root, steps |-> Append(chain[p].steps, f)])
    /\ UNCHANGED <<call, structVars, lazyVars>>

\* p.and_(*others) on an Op
OpAnd(p, others) ==
    /\ ops[p].cls = "Op"
    /\ Size(ops) < MaxObjs
    /\ ops' = Op_and_(ops, p, others)
    /\ chain' = Append(chain, [root |-> Len(ops) + 1, steps |-> <<>>])
    /\ UNCHANGED <<call, structVars, lazyVars>>

\* p.into(g) on a ChainableOp: self._do(obj)
ChainableOpMethod(p, f) ==
    /\ ops[p].cls = "ChainableOp"
    /\ Size(ops) < MaxObjs
    /\ ops' = ChainableOp_do(ops, p, f)
    /\ chain' = [chain EXCEPT ![p].steps = Append(@, f)]
    /\ UNCHANGED <<call, structVars, lazyVars>>

\* p(x)
OpCall(p, x) ==
    /\ call' = [obj |-> p, arg |-> x, out |-> Eval(ops, p, x), hint |-> ""]
    /\ UNCHANGED <<ops, chain, structVars, lazyVars>>

\* p.hint(dtype)(x)
OpHint(p, dtype, x) ==
    /\ LET r == Op_hint(ops, p, dtype)
       IN /\ ops' = r[1]
          /\ chain' = IF r[2] \in DOMAIN chain THEN chain
                      ELSE Append(chain, [root |-> chain[p].root, steps |-> chain[p].steps])
          /\ call' = [obj |-> p, arg |-> x, out |-> Eval(r[1], r[2], x), hint |-> dtype]
    /\ UNCHANGED <<structVars, lazyVars>>

\* The tuples of one or two distinct callables that and_ is given.
OthersOf(ids) == {<<q>> : q \in ids} \cup {qr \in ids \X ids : qr[1] # qr[2]}

InitOp ==
    /\ ops = <<>>
    /\ chain = <<>>
    /\ call = NoCall

\* The contents of a data object: a dict is its set of <<key, value>> items,
\* a list the sequence of its elements.
DictObj(m) == [t |-> "dict", m |-> m, l |-> <<>>]
ListObj(l) == [t |-> "list", m |-> {}, l |-> l]
NoData == [t |-> "none", m |-> {}, l |-> <<>>]
NoRet == [kind |-> "none", obj |-> 0, arg |-> 0, ref |-> 0, out |-> NoData]

InitStruct ==
    /\ data = <<>>
    /\ wrappers = <<>>
    /\ made = <<>>
    /\ ret = NoRet

\* No Iter expression yet.
NoRun == [phase |-> "none", steps |-> <<>>, src |-> "", xs |-> <<>>, top |-> 0,
          out |-> <<>>, fargs |-> <<>>]

\* No consumed Iter expression yet.
NoSeq == [phase |-> "none", steps |-> <<>>, xs |-> <<>>, outs |-> <<>>, printed |-> <<>>]

InitLazy ==
    /\ iters = <<>>
    /\ run = NoRun
    /\ seq = NoSeq

Init == InitOp /\ InitStruct /\ InitLazy

Next ==
    \/ \E cls \in {"Op", "ChainableOp"} : OpConstructor(cls)
    \/ \E p \in Ids, f \in ChainSteps : OpMethod(p, f)
    \/ \E p \in Ids, others \in OthersOf(Ids) : OpAnd(p, others)
    \/ \E p \in Ids, g \in {"inc", "dbl"} : ChainableOpMethod(p, StepInto(g))
    \/ \E p \in Ids, x \in Inputs : OpCall(p, x)

Spec == Init /\ [][Next]_vars

\* The same with p.hint(dtype)(x) for the calls.
NextHint ==
    \/ \E cls \in {"Op", "ChainableOp"} : OpConstructor(cls)
    \/ \E p \in Ids, f \in ChainSteps : OpMethod(p, f)
    \/ \E p \in Ids, g \in {"inc", "dbl"} : ChainableOpMethod(p, StepInto(g))
    \/ \E p \in Ids, dtype \in Types, x \in Inputs : OpHint(p, dtype, x)

SpecHint == Init /\ [][NextHint]_vars

-----------------------------------------------------------------------------
(* One step on a fresh op(): op().m(v)(x) for every arithmetic and         *)
(* comparison method.                                                      *)

ArithMethods == {"add", "sub", "mul", "truediv", "floordiv", "mod", "pow"}
ReversedMethods == {"sub_r", "truediv_r", "floordiv_r", "mod_r", "pow_r"}
CompareMethods == {"gt", "ge", "lt", "le"}

ArithOperands == {PyInt(-2), PyInt(0), PyInt(2), PyInt(3), StrB}
ArithInputs == {PyInt(-3), PyInt(0), PyInt(2), PyInt(5), StrA}

ArithSteps ==
    {Step(m, v) : m \in ArithMethods \cup ReversedMethods \cup CompareMethods \cup {"eq", "ne"},
                  v \in ArithOperands}

NextArith ==
    \/ ops = <<>> /\ OpConstructor("Op")
    \/ \E f \in ArithSteps : Len(ops) = 1 /\ OpMethod(1, f)
    \/ \E x \in ArithInputs : Len(ops) = 2 /\ OpCall(2, x)

SpecArith == Init /\ [][NextArith]_vars

\* The last call was op().m(v)(x) for a method m of the set ms.
CalledOneStep(ms) ==
    /\ call.obj # 0
    /\ ops[call.obj].kind = "do"
    /\ ops[ops[call.obj].self].kind = "identity"
    /\ ops[call.obj].f.m \in ms

\* x m v, the chain's value on the left.
LeftOperand(m, x, v) ==
    CASE m = "add" -> PyAdd(x, v)
      [] m = "sub" -> PySub(x, v)
      [] m = "mul" -> PyMul(x, v)
      [] m = "truediv" -> PyTrueDiv(x, v)
      [] m = "floordiv" -> PyFloorDiv(x, v)
      [] m = "mod" -> PyMod(x, v)
      [] m = "pow" -> PyPow(x, v)
      [] m = "gt" -> PyGt(x, v)
      [] m = "ge" -> PyGe(x, v)
      [] m = "lt" -> PyLt(x, v)
      [] m = "le" -> PyLe(x, v)

\* v m x, the method's argument on the left.
RightOperand(m, v, x) ==
    CASE m = "sub_r" -> PySub(v, x)
      [] m = "truediv_r" -> PyTrueDiv(v, x)
      [] m = "floordiv_r" -> PyFloorDiv(v, x)
      [] m = "mod_r" -> PyMod(v, x)
      [] m = "pow_r" -> PyPow(v, x)

-----------------------------------------------------------------------------
(* Claims about one step on a fresh op().                                  *)

\* C7: for m in add, sub, mul, truediv, floordiv, mod, pow, op().m(v)(x) is
\* x m v: the chain's value is the left operand and v the right one, for every
\* operand type, those with a non-commutative + included.
C7_ArithLeftOperand ==
    CalledOneStep(ArithMethods) =>
        call.out = LeftOperand(ops[call.obj].f.m, call.arg, ops[call.obj].f.v)

\* C8: for m_r in sub_r, truediv_r, floordiv_r, mod_r, pow_r, op().m_r(v)(x)
\* is v m x: the method's argument is the left operand and the chain's value
\* the right one.
C8_ReversedRightOperand ==
    CalledOneStep(ReversedMethods) =>
        call.out = RightOperand(ops[call.obj].f.m, ops[call.obj].f.v, call.arg)

\* C8 witness: op().sub_r(2)(5) was called and returned 2 - 5 = -3, which is
\* not 5 - 2.
C8_Witness ==
    /\ CalledOneStep({"sub_r"})
    /\ ops[call.obj].f.v = PyInt(2)
    /\ call.arg = PyInt(5)
    /\ call.out = PyInt(-3)

\* C9: op().gt(v)(x) is x > v, op().ge(v)(x) is x >= v, op().lt(v)(x) is
\* x < v and op().le(v)(x) is x <= v.
C9_CompareCurrentValue ==
    CalledOneStep(CompareMethods) =>
        call.out = LeftOperand(ops[call.obj].f.m, call.arg, ops[call.obj].f.v)

\* C9 witness: op().gt(2)(5) was called and returned True.
C9_Witness ==
    /\ CalledOneStep({"gt"})
    /\ ops[call.obj].f.v = PyInt(2)
    /\ call.arg = PyInt(5)
    /\ call.out = PyBool(TRUE)

-----------------------------------------------------------------------------
(* Claims about chained expressions.                                       *)

\* The results of an expression p of the heap `heap`, on every input.
Results(heap, p) == [x \in Inputs |-> Eval(heap, p, x)]

\* C1: a chaining method returns a new expression object and leaves the
\* receiver unchanged: every expression that existed before the call returns,
\* on every input, what it returned before the call.
C1_ChainingLeavesReceiver ==
    [][ops' # ops =>
          /\ Len(ops') = Len(ops) + 1
          /\ \A p \in DOMAIN ops : Results(ops', p) = Results(ops, p)]_vars

\* The expression q is op().add(a).mul(b).
IsAddThenMul(q, a, b) ==
    /\ ops[q].cls = "Op"
    /\ ops[chain[q].root].kind = "identity"
    /\ chain[q].steps = <<Step("add", a), Step("mul", b)>>

\* op().m(v)(y), on a heap of its own.
FreshOp(f, y) ==
    Eval(BaseExpr_do(<<Obj("Op", "identity", 0, NoStep, <<>>, fn_identity)>>, 1, f), 2, y)

\* (x + a) * b
AddThenMul(x, a, b) ==
    LET sum == PyAdd(x, a) IN IF IsRaise(sum) THEN sum ELSE PyMul(sum, b)

\* C5: op().add(a).mul(b)(x) is (x + a) * b, and is op().mul(b) applied to
\* op().add(a)(x), for all operands a, b and every input x.
C5_AddThenMulLaw ==
    \A q \in Ids, a \in Operands, b \in Operands, x \in Inputs :
        IsAddThenMul(q, a, b) =>
            /\ Eval(ops, q, x) = AddThenMul(x, a, b)
            /\ LET first == FreshOp(Step("add", a), x)
               IN Eval(ops, q, x) = IF IsRaise(first) THEN first ELSE FreshOp(Step("mul", b), first)

\* What the expression at the root of a chain returns: an expression made by
\* a constructor returns its input, one made by and_ its conjunction.
RootResult(r, x) == IF ops[r].kind = "and" THEN Eval(ops, r, x) ELSE x

\* An expression on which the steps f1, ..., fn were chained in that order
\* returns fn(...f2(f1(x))...).
ExprLeftToRight ==
    \A p \in Ids, x \in Inputs :
        Eval(ops, p, x) = FoldSteps(chain[p].steps, RootResult(chain[p].root, x))

\* C10: p.and_(q1, ..., qn)(x) returns True exactly when p(x) and every qi(x)
\* are true, each of them evaluated on the same input x.
C10_AndSameInput ==
    \A r \in Ids, x \in Inputs :
        ops[r].kind = "and" =>
            LET checks == <<ops[r].self>> \o ops[r].others
                allTrue == \A i \in DOMAIN checks :
                              LET out == Eval(ops, checks[i], x)
                              IN ~IsRaise(out) /\ Truthy(out)
            IN (Eval(ops, r, x) = PyBool(TRUE)) <=> allTrue

\* C10 witness: op().gt(2).and_(op().gt(2)) exists; on 3 both operands are
\* true and it returns True, on 1 the receiver's input 1 is true but an operand
\* is false and it returns False.
C10_Witness ==
    \E r \in Ids :
        /\ ops[r].kind = "and"
        /\ ops[r].others # <<>>
        /\ Eval(ops, r, PyInt(3)) = PyBool(TRUE)
        /\ Eval(ops, r, PyInt(1)) = PyBool(FALSE)
        /\ \E i \in DOMAIN ops[r].others : ops[ops[r].others[i]].kind = "do"

\* The operands that all(check(value) for check in all_checks) calls, in
\* order: all() asks the generator for the next result only while every
\* result so far is true.
RECURSIVE ChecksCalled(_, _, _)
ChecksCalled(heap, checks, value) ==
    IF checks = <<>> THEN <<>>
    ELSE LET r == Eval(heap, Head(checks), value)
         IN IF IsRaise(r) \/ ~Truthy(r) THEN <<Head(checks)>>
            ELSE <<Head(checks)>> \o ChecksCalled(heap, Tail(checks), value)

\* C28: and_ evaluates all its operands and then ANDs them: each time an Op
\* built with p.and_(q1, ..., qn) is called on an input, p and every qi are
\* evaluated on that input, also when an earlier one has returned a false
\* value (no short-circuiting).
C28_AndEvaluatesAll ==
    (call.obj # 0 /\ ops[call.obj].kind = "and") =>
        ChecksCalled(ops, <<ops[call.obj].self>> \o ops[call.obj].others, call.arg)
            = <<ops[call.obj].self>> \o ops[call.obj].others

-----------------------------------------------------------------------------
(* Dicts and lists.  The primitives take the heap and the identity of      *)
(* their argument and return <<heap', identity of the result>>, so that a  *)
(* primitive which builds a new object and one which changes its argument  *)
(* are different things.                                                   *)

\* The keys of a dict's contents, and the value at a key that is there.
KeysOf(m) == {kv[1] : kv \in m}
At(m, key) == (CHOOSE kv \in m : kv[1] = key)[2]

Put(m, key, value) == {kv \in m : kv[1] # key} \cup {<<key, value>>}
Del(m, keys) == {kv \in m : kv[1] \notin keys}
Alloc(heap, obj) == <<Append(heap, obj), Len(heap) + 1>>

\* cytoolz.dicttoolz
assoc_in_place(heap, d, key, value) ==
    <<[heap EXCEPT ![d].m = Put(@, key, value)], d>>

assoc(heap, d, key, value) ==
    Alloc(heap, DictObj(Put(heap[d].m, key, value)))

dissoc(heap, d, keys) ==
    Alloc(heap, DictObj(Del(heap[d].m, keys)))

valmap(heap, func, d) ==
    Alloc(heap, DictObj({<<kv[1], UserCall(func, kv[2])>> : kv \in heap[d].m}))

\* An exception in place of a result.
Failed(e) == [t |-> e, m |-> {}, l |-> <<>>]
KeyError == Failed("KeyError")

\* None, and a value that is a dict: n is the identity of the dict.
PyNone == [t |-> "NoneType", n |-> 0, d |-> 1, s |-> <<>>]
PyRef(id) == [t |-> "dict", n |-> id, d |-> 1, s |-> <<>>]

\* rv = d, no copy: the result of a level is stored in the dict it came from.
RECURSIVE update_in_no_copy(_, _, _, _)
update_in_no_copy(heap, d, keys, func) ==
    IF keys = <<>> THEN Alloc(heap, Failed("StopIteration"))
    ELSE LET m == IF d = 0 THEN {} ELSE heap[d].m
             k == Head(keys)
             Store(h, new) == IF d = 0 THEN Alloc(h, DictObj(new))
                              ELSE <<[h EXCEPT ![d].m = new], d>>
         IN IF Len(keys) = 1
            THEN LET v == UserCall(func, IF k \in KeysOf(m) THEN At(m, k) ELSE PyNone)
                 IN IF IsRaise(v) THEN Alloc(heap, Failed(v.t)) ELSE Store(heap, Put(m, k, v))
            ELSE IF k \in KeysOf(m) /\ At(m, k).t # "dict"
            THEN Alloc(heap, Failed("TypeError"))
            ELSE LET r == update_in_no_copy(heap, IF k \in KeysOf(m) THEN At(m, k).n ELSE 0,
                                            Tail(keys), func)
                 IN IF r[1][r[2]].t # "dict" THEN r
                    ELSE Store(r[1], Put(m, k, PyRef(r[2])))

\* cytoolz.dicttoolz.update_in(d, keys, func, default=None, factory=dict):
\* a copy of d, and of every dict on the path, with func(value) at the end
\* of the path; a level that is not there is a new dict (d = 0) and the
\* value there is func(default).  A value on the path that is not a dict
\* cannot be copied into one, no key at all is a StopIteration, and what
\* func raises is raised.
RECURSIVE update_in(_, _, _, _)
update_in(heap, d, keys, func) ==
    IF keys = <<>> THEN Alloc(heap, Failed("StopIteration"))
    ELSE LET m == IF d = 0 THEN {} ELSE heap[d].m
             k == Head(keys)
         IN IF Len(keys) = 1
            THEN LET v == UserCall(func, IF k \in KeysOf(m) THEN At(m, k) ELSE PyNone)
                 IN IF IsRaise(v) THEN Alloc(heap, Failed(v.t))
                    ELSE Alloc(heap, DictObj(Put(m, k, v)))
            ELSE IF k \in KeysOf(m) /\ At(m, k).t # "dict"
            THEN Alloc(heap, Failed("TypeError"))
            ELSE LET r == update_in(heap, IF k \in KeysOf(m) THEN At(m, k).n ELSE 0,
                                    Tail(keys), func)
                 IN IF r[1][r[2]].t # "dict" THEN r
                    ELSE Alloc(r[1], DictObj(Put(m, k, PyRef(r[2]))))

\* The leaves of a dict and of the dicts in it, each with the keys on the
\* path to it; a dict on the way is there too, as PyRef(0).
RECURSIVE Deep(_, _, _)
Deep(heap, d, prefix) ==
    UNION {IF kv[2].t = "dict"
           THEN {<<Append(prefix, kv[1]), PyRef(0)>>}
                \cup Deep(heap, kv[2].n, Append(prefix, kv[1]))
           ELSE {<<Append(prefix, kv[1]), kv[2]>>} : kv \in heap[d].m}

\* pychain._mod._drop(data, keys), were a key that is not there an error
_drop_strict(heap, d, keys) ==
    IF keys \subseteq KeysOf(heap[d].m) THEN dissoc(heap, d, keys) ELSE Alloc(heap, KeyError)

\* pychain._mod
_drop(heap, d, keys) == dissoc(heap, d, keys)

\* funcs.dc and funcs.it, funcs.fn: the step factories of the wrappers
dc_with_key(heap, d, key, value) == assoc(heap, d, key, value)
dc_drop(heap, d, keys) == dissoc(heap, d, keys)
dc_map_values(heap, f, d) == valmap(heap, f, d)
\* dc.filter_on_key(key, predicate): predicate is asked of the value at key
\* and the item is dropped if it is false; the other items are kept.
dc_filter_on_key(heap, key, predicate, d) ==
    Alloc(heap, DictObj({kv \in heap[d].m :
                            kv[1] # key \/ Truthy(UserCheck(predicate, kv[2]))}))
it_head(heap, n, d) ==
    Alloc(heap, ListObj(SubSeq(heap[d].l, 1, IF n < Len(heap[d].l) THEN n ELSE Len(heap[d].l))))
fn_partial_map(heap, f, d) ==
    Alloc(heap, ListObj([i \in DOMAIN heap[d].l |-> UserCall(f, heap[d].l[i])]))

\* rv.update(d): the entries of d, and those of rv at the other keys.
DictUpdate(rv, d) == {kv \in rv : kv[1] \notin KeysOf(d)} \cup d

\* cytoolz.dicttoolz.merge(*dicts): rv = {}; for d in dicts: rv.update(d).
\* The dicts are given by their contents.
RECURSIVE MergeAll(_, _)
MergeAll(rv, dicts) ==
    IF dicts = <<>> THEN rv ELSE MergeAll(DictUpdate(rv, Head(dicts)), Tail(dicts))

merge(heap, dicts) == Alloc(heap, DictObj(MergeAll({}, dicts)))

\* pychain._mod._merge(on, others): dcz.merge(on, *others)
_merge_on_last(heap, on, others) == merge(heap, others \o <<heap[on].m>>)

_merge(heap, on, others) == merge(heap, <<heap[on].m>> \o others)

\* _flatten_recursive(d, parent_key, sep) of Struct.flatten_keys, sep ".":
\* items = {}; for k, v in d.items(): new_key is parent_key + sep + k if
\* parent_key is true and k otherwise; a v with items() is flattened under
\* new_key and its items put into items, any other v is put at new_key.
\* The contents of a dict do not record the order of its items: they are
\* taken in some order, which the result depends on only when two leaves
\* get the same new_key.
RECURSIVE _flatten_recursive(_, _, _), FlattenItems(_, _, _, _)
_flatten_recursive(heap, d, parent_key) == FlattenItems(heap, heap[d].m, parent_key, {})

FlattenItems(heap, todo, parent_key, items) ==
    IF todo = {} THEN items
    ELSE LET kv == CHOOSE x \in todo : TRUE
             new_key == IF parent_key # "" THEN parent_key \o "." \o kv[1] ELSE kv[1]
         IN FlattenItems(heap, todo \ {kv}, parent_key,
                IF kv[2].t = "dict"
                THEN DictUpdate(items, _flatten_recursive(heap, kv[2].n, new_key))
                ELSE Put(items, new_key, kv[2]))

\* copy.deepcopy of a dict: a new dict with the same keys, the dicts in it
\* copied in turn; of a list of ints: a new list.
RECURSIVE deepcopy(_, _), CloneItems(_, _, _)
deepcopy(heap, d) ==
    IF heap[d].t = "dict"
    THEN LET r == CloneItems(heap, heap[d].m, {}) IN Alloc(r[1], DictObj(r[2]))
    ELSE Alloc(heap, heap[d])

CloneItems(heap, todo, done) ==
    IF todo = {} THEN <<heap, done>>
    ELSE LET kv == CHOOSE x \in todo : TRUE
         IN IF kv[2].t = "dict"
            THEN LET r == deepcopy(heap, kv[2].n)
                 IN CloneItems(r[1], todo \ {kv}, done \cup {<<kv[1], PyRef(r[2])>>})
            ELSE CloneItems(heap, todo \ {kv}, done \cup {kv})

\* funcs.fn.clone
fn_clone(heap, d) == deepcopy(heap, d)

\* Callables handed to merge_with, applied to a list of values: sum, len.
RECURSIVE SumOf(_)
SumOf(vals) == IF vals = <<>> THEN PyInt(0) ELSE PyAdd(Head(vals), SumOf(Tail(vals)))

UserAgg(f, vals) ==
    CASE f = "sum" -> SumOf(vals)
      [] f = "len" -> PyInt(Len(vals))
      [] f = "first" -> Head(vals)

\* The values mapped from key in the dicts, in the order of the dicts.
RECURSIVE ValuesAt(_, _)
ValuesAt(dicts, key) ==
    IF dicts = <<>> THEN <<>>
    ELSE (IF key \in KeysOf(Head(dicts)) THEN <<At(Head(dicts), key)>> ELSE <<>>)
         \o ValuesAt(Tail(dicts), key)

\* func applied to the values two at a time.
RECURSIVE Pairwise(_, _)
Pairwise(func, vals) ==
    IF Len(vals) <= 1 THEN Head(vals)
    ELSE Pairwise(func, <<UserAgg(func, <<vals[1], vals[2]>>)>> \o SubSeq(vals, 3, Len(vals)))

\* cytoolz.dicttoolz.merge_with(func, *dicts): every key of any dict, with
\* func applied to the list of the values mapped from it.
merge_with_pairwise(heap, func, dicts) ==
    LET m == {<<key, Pairwise(func, ValuesAt(dicts, key))>> :
                 key \in UNION {KeysOf(dicts[i]) : i \in DOMAIN dicts}}
    IN IF \E kv \in m : IsRaise(kv[2]) THEN Alloc(heap, Failed("TypeError"))
       ELSE Alloc(heap, DictObj(m))

merge_with(heap, func, dicts) ==
    LET m == {<<key, UserAgg(func, ValuesAt(dicts, key))>> :
                 key \in UNION {KeysOf(dicts[i]) : i \in DOMAIN dicts}}
    IN IF \E kv \in m : IsRaise(kv[2]) THEN Alloc(heap, Failed("TypeError"))
       ELSE Alloc(heap, DictObj(m))

\* A step of a wrapper's pipeline: the callable a method hands to _do/_into.
\*   k, v : the key and value of with_key      ks : the keys of drop
\*   g : the callable of map_values, merge_with others : the dicts of merge
\*   n : the n of head                          path : the keys of update_in
DStep(m, k, v, g, n) ==
    [m |-> m, k |-> k, v |-> v, g |-> g, n |-> n, ks |-> {}, path |-> <<>>, others |-> <<>>]

ApplyDataStep(heap, f, d) ==
    CASE f.m = "assoc" -> assoc(heap, d, f.k, f.v)
      [] f.m = "_drop" -> _drop(heap, d, f.ks)
      [] f.m = "_merge" -> _merge(heap, d, f.others)
      [] f.m = "dcz.merge_with" -> merge_with(heap, f.g, f.others \o <<heap[d].m>>)
      [] f.m = "dcz.update_in" -> update_in(heap, d, f.path, f.g)
      [] f.m = "_flatten_recursive" -> Alloc(heap, DictObj(_flatten_recursive(heap, d, "")))
      [] f.m = "deepcopy" -> deepcopy(heap, d)
      [] f.m = "valmap" -> valmap(heap, f.g, d)
      [] f.m = "dc.with_key" -> dc_with_key(heap, d, f.k, f.v)
      [] f.m = "dc.drop" -> dc_drop(heap, d, f.ks)
      [] f.m = "dc.map_values" -> dc_map_values(heap, f.g, d)
      [] f.m = "dc.filter_on_key" -> dc_filter_on_key(heap, f.k, f.g, d)
      [] f.m = "it.head" -> it_head(heap, f.n, d)
      [] f.m = "fn.partial_map" -> fn_partial_map(heap, f.g, d)

\* A callable of a pipeline is the sequence of the steps composed into it.
\* fn.pipe(value, *fs) and fn.compose(*fs) run the callables left to right.
RECURSIVE Concat(_)
Concat(fs) == IF fs = <<>> THEN <<>> ELSE Head(fs) \o Concat(Tail(fs))

RECURSIVE RunSteps(_, _, _)
RunSteps(heap, d, steps) ==
    IF steps = <<>> THEN <<heap, d>>
    ELSE LET r == ApplyDataStep(heap, Head(steps), d)
         IN RunSteps(r[1], r[2], Tail(steps))

fn_compose_all(fs) == Concat(fs)
fn_pipe(heap, d, fs) == RunSteps(heap, d, Concat(fs))

-----------------------------------------------------------------------------
(* Wrappers.  A Struct or Iter wrapper holds the identity of its data      *)
(* (_value) and a list of callables (_pipeline).  A Struct expression      *)
(* (pychain._mod) holds one callable and no data: value is 0.              *)

Wrapper(cls, value, pipeline) == [cls |-> cls, value |-> value, pipeline |-> pipeline]

Struct_init(cls, _value) == Wrapper(cls, _value, <<>>)

\* _do appends to the receiver's own list and returns the receiver.
Struct_do(heap, self, f) ==
    <<[heap EXCEPT ![self].pipeline = Append(@, f)], self>>

\* _into builds a new wrapper on the same _value.
Struct_into(heap, self, f) ==
    <<Append(heap, Wrapper(heap[self].cls, heap[self].value,
                           <<fn_compose_all(Append(heap[self].pipeline, f))>>)),
      Len(heap) + 1>>

\* BaseExpr._do on a Struct expression: a new expression around
\* f(self._pipeline(value)).
StructExpr_do(heap, self, f) ==
    <<Append(heap, Wrapper(heap[self].cls, 0, <<Concat(heap[self].pipeline) \o f>>)),
      Len(heap) + 1>>

Struct_unwrap(heap, w, self) ==
    IF w[self].pipeline = <<>> THEN <<heap, w[self].value>>
    ELSE fn_pipe(heap, w[self].value, w[self].pipeline)

\* BaseExpr.__call__ on a Struct expression.
StructExpr_call(heap, w, self, value) ==
    RunSteps(heap, value, Concat(w[self].pipeline))

\* BaseExpr._do where _pipeline is a list (the Struct, Iter and Expr that are
\* built on a list of callables): self._pipeline.append(f); return self.
BaseExpr_append(heap, self, f) ==
    <<[heap EXCEPT ![self].pipeline = Append(@, f)], self>>

\* The contents unwrap() would return now.
Result(heap, w, self) ==
    LET r == Struct_unwrap(heap, w, self) IN r[1][r[2]]

\* The contents a step returns when applied to the given contents.
StepResult(f, contents) ==
    LET r == ApplyDataStep(<<contents>>, f, 1) IN r[1][r[2]]

IsWrapper(cls) == cls \in {"Struct", "Iter"}
RECURSIVE WrapperSize(_)
WrapperSize(w) ==
    IF w = <<>> THEN 0
    ELSE 1 + Len(Concat(Head(w).pipeline)) + WrapperSize(Tail(w))

NoDStep == DStep("", "", NoVal, "", 0)

\* The methods explored, each with the callable it hands over and how.
Struct_with_key(key, value) == [how |-> "_do", f |-> DStep("dc.with_key", key, value, "", 0)]
Struct_drop(keys) ==
    [how |-> "_do", f |-> [DStep("dc.drop", "", NoVal, "", 0) EXCEPT !.ks = keys]]
\* the key dropped without predicate being asked
Struct_filter_on_key_unasked(key, predicate) ==
    [how |-> "_do", f |-> [DStep("dc.drop", key, NoVal, predicate, 0) EXCEPT !.ks = {key}]]
Struct_filter_on_key(key, predicate) ==
    [how |-> "_do", f |-> DStep("dc.filter_on_key", key, NoVal, predicate, 0)]
Struct_map_values(g) == [how |-> "_into", f |-> DStep("dc.map_values", "", NoVal, g, 0)]
Iter_head(n) == [how |-> "_do", f |-> DStep("it.head", "", NoVal, "", n)]
Iter_map(g) == [how |-> "_into", f |-> DStep("fn.partial_map", "", NoVal, g, 0)]
StructExpr_with_key(key, value) == [how |-> "new", f |-> DStep("assoc", key, value, "", 0)]
StructExpr_drop(keys) ==
    [how |-> "new", f |-> [DStep("_drop", "", NoVal, "", 0) EXCEPT !.ks = keys]]
StructExpr_merge(others) ==
    [how |-> "new", f |-> [DStep("_merge", "", NoVal, "", 0) EXCEPT !.others = others]]
StructExpr_merge_with(f, others) ==
    [how |-> "new", f |-> [DStep("dcz.merge_with", "", NoVal, f, 0) EXCEPT !.others = others]]
StructExpr_update_in(keys, f) ==
    [how |-> "new", f |-> [DStep("dcz.update_in", "", NoVal, f, 0) EXCEPT !.path = keys]]
StructExpr_flatten_keys == [how |-> "new", f |-> DStep("_flatten_recursive", "", NoVal, "", 0)]
BaseExpr_with_key(key, value) == [how |-> "append", f |-> DStep("assoc", key, value, "", 0)]
StructExpr_map_values(g) == [how |-> "new", f |-> DStep("valmap", "", NoVal, g, 0)]

Methods(cls) ==
    CASE cls = "Struct" ->
            {Struct_with_key("b", PyInt(2)), Struct_drop({"a"}), Struct_map_values("inc")}
      [] cls = "Iter" -> {Iter_head(1), Iter_map("inc")}
      [] cls = "StructExpr" ->
            {StructExpr_with_key("b", PyInt(2)), StructExpr_drop({"a"}),
             StructExpr_map_values("inc")}
      [] OTHER -> {}

\* The dicts, keys and methods of the one-method runs on dicts.
DictInputs ==
    {{}, {<<"a", PyInt(1)>>}, {<<"a", PyInt(1)>>, <<"b", PyInt(2)>>}}
OtherDicts ==
    {{<<"a", PyInt(3)>>}, {<<"a", PyInt(4)>>, <<"c", PyInt(5)>>}, {<<"c", PyInt(6)>>}}
Others == UNION {[1..k -> OtherDicts] : k \in 0..MaxLen}
KeySets == SUBSET {"a", "b", "z"}
Paths == UNION {[1..k -> {"a", "b"}] : k \in 0..MaxLen}

\* The dicts that have the dict made last (prev) in them, and those that
\* have no dict in them.
FlatDicts == {{}, {<<"b", PyInt(1)>>}}
NestedDicts(prev) ==
    IF prev = 0 THEN {}
    ELSE {{<<"a", PyRef(prev)>>}, {<<"a", PyRef(prev)>>, <<"b", PyInt(2)>>},
          {<<"", PyRef(prev)>>}}

DictMethods(cls) ==
    CASE cls = "StructExpr" ->
            {StructExpr_merge(o) : o \in Others}
            \cup {StructExpr_merge_with(f, o) : f \in {"sum", "len"}, o \in Others}
            \cup {StructExpr_drop(ks) : ks \in KeySets}
      [] cls = "Struct" -> {Struct_filter_on_key(k, "odd") : k \in {"a", "b", "z"}}
      [] OTHER -> {}

NestedMethods(cls) ==
    CASE cls = "StructExpr" ->
            {StructExpr_update_in(ks, f) : ks \in Paths, f \in {"inc", "zero"}}
            \cup {StructExpr_flatten_keys}
      [] OTHER -> {}

\* The method of the expressions built on a list.
ListMethods(cls) ==
    CASE cls = "BaseExpr" -> {BaseExpr_with_key("b", PyInt(2))}
      [] OTHER -> {}

\* merge_with with a function that tells the order of the values.
OrderMethods(cls) ==
    IF cls = "StructExpr" THEN {StructExpr_merge_with("first", o) : o \in Others} ELSE {}

AllMethods(cls) ==
    Methods(cls) \cup DictMethods(cls) \cup NestedMethods(cls) \cup ListMethods(cls)
        \cup OrderMethods(cls)

ConstructorData(cls) ==
    CASE cls = "Struct" -> {DictObj({<<"a", PyInt(1)>>})}
      [] cls = "Iter" -> {ListObj(<<PyInt(1), PyInt(2)>>)}

Event(op, cls, recv, r, f, before) ==
    [op |-> op, cls |-> cls, recv |-> recv, ret |-> r, step |-> f, before |-> before]

\* Struct(d), Iter(xs): the wrapper keeps the object it is given.
WrapperConstructor(cls, contents) ==
    /\ WrapperSize(wrappers) < MaxWrappers
    /\ data' = Append(data, contents)
    /\ wrappers' = Append(wrappers, Struct_init(cls, Len(data) + 1))
    /\ made' = Append(made, Event("init", cls, 0, Len(wrappers) + 1, NoDStep, contents))
    /\ UNCHANGED <<ret, opVars, lazyVars>>

\* struct(): an expression around the identity.
StructConstructor ==
    /\ WrapperSize(wrappers) < MaxWrappers
    /\ wrappers' = Append(wrappers, Wrapper("StructExpr", 0, <<>>))
    /\ made' = Append(made, Event("init", "StructExpr", 0, Len(wrappers) + 1, NoDStep, NoData))
    /\ UNCHANGED <<data, ret, opVars, lazyVars>>

\* A chaining method of a wrapper or of a Struct expression.
WrapperMethod(p, c) ==
    /\ p \in DOMAIN wrappers
    /\ c \in AllMethods(wrappers[p].cls)
    /\ LET r == CASE c.how = "_do" -> Struct_do(wrappers, p, <<c.f>>)
                  [] c.how = "append" -> BaseExpr_append(wrappers, p, <<c.f>>)
                  [] c.how = "_into" -> Struct_into(wrappers, p, <<c.f>>)
                  [] c.how = "new" -> StructExpr_do(wrappers, p, <<c.f>>)
           before == IF IsWrapper(wrappers[p].cls) THEN Result(data, wrappers, p) ELSE NoData
       IN /\ WrapperSize(r[1]) <= MaxWrappers
          /\ wrappers' = r[1]
          /\ made' = Append(made, Event(c.f.m, wrappers[p].cls, p, r[2], c.f, before))
    /\ UNCHANGED <<data, ret, opVars, lazyVars>>

\* w.unwrap().  The objects the pipeline built on the way are garbage once
\* the result is handed over; the objects that existed before stay.
WrapperUnwrap(p) ==
    /\ p \in DOMAIN wrappers
    /\ IsWrapper(wrappers[p].cls)
    /\ LET r == Struct_unwrap(data, wrappers, p)
       IN /\ data' = SubSeq(r[1], 1, Len(data))
          /\ ret' = [kind |-> "unwrap", obj |-> p, arg |-> 0,
                     ref |-> IF r[2] <= Len(data) THEN r[2] ELSE 0,
                     out |-> r[1][r[2]]]
    /\ UNCHANGED <<wrappers, made, opVars, lazyVars>>

\* e(d): a Struct expression called on a dict.
StructExprCall(p, d) ==
    /\ p \in DOMAIN wrappers
    /\ wrappers[p].cls = "StructExpr"
    /\ d \in DOMAIN data
    /\ data[d].t = "dict"
    /\ LET r == StructExpr_call(data, wrappers, p, d)
       IN /\ data' = SubSeq(r[1], 1, Len(data))
          /\ ret' = [kind |-> "call", obj |-> p, arg |-> d,
                     ref |-> IF r[2] <= Len(data) THEN r[2] ELSE 0,
                     out |-> r[1][r[2]]]
    /\ UNCHANGED <<wrappers, made, opVars, lazyVars>>

NextStruct ==
    \/ \E cls \in {"Struct", "Iter"} : \E c \in ConstructorData(cls) : WrapperConstructor(cls, c)
    \/ StructConstructor
    \/ \E p \in DOMAIN wrappers : \E c \in Methods(wrappers[p].cls) : WrapperMethod(p, c)
    \/ \E p \in DOMAIN wrappers : WrapperUnwrap(p)
    \/ \E p \in DOMAIN wrappers : \E d \in DOMAIN data : StructExprCall(p, d)

SpecStruct == Init /\ [][NextStruct]_vars

-----------------------------------------------------------------------------
(* One method on a dict: Struct(d) hands d over; either one method of the *)
(* wrapper is called and the wrapper unwrapped, or struct() gives the      *)
(* identity expression, one method of it gives a second expression, and    *)
(* that one is called on d.                                                *)

NextDict ==
    \/ wrappers = <<>> /\ \E c \in DictInputs : WrapperConstructor("Struct", DictObj(c))
    \/ Len(wrappers) = 1 /\ wrappers[1].pipeline = <<>> /\ ret = NoRet
           /\ \E c \in DictMethods("Struct") : WrapperMethod(1, c)
    \/ WrapperUnwrap(1)
    \/ Len(wrappers) = 1 /\ StructConstructor
    \/ Len(wrappers) = 2 /\ \E c \in DictMethods("StructExpr") : WrapperMethod(2, c)
    \/ \E p \in DOMAIN wrappers : \E d \in DOMAIN data : StructExprCall(p, d)

SpecDict == Init /\ [][NextDict]_vars

\* The one step of the expression that was called last, NoDStep if it has
\* none or several.
CalledStep ==
    IF ret.kind = "call" /\ Len(Concat(wrappers[ret.obj].pipeline)) = 1
    THEN Concat(wrappers[ret.obj].pipeline)[1] ELSE NoDStep

\* The dicts of a merge, self first.
AllDicts == <<data[ret.arg].m>> \o CalledStep.others
AllKeys == UNION {KeysOf(AllDicts[i]) : i \in DOMAIN AllDicts}
LastWith(key) ==
    CHOOSE i \in DOMAIN AllDicts :
        /\ key \in KeysOf(AllDicts[i])
        /\ \A j \in DOMAIN AllDicts : key \in KeysOf(AllDicts[j]) => j <= i

\* C14: d.merge(*others) has every key of d or of any of the others and no
\* other key, each with the value of the last dict that has it, d being the
\* first of the dicts.
C14_MergePrecedence ==
    CalledStep.m = "_merge" =>
        /\ ret.out.t = "dict"
        /\ KeysOf(ret.out.m) = AllKeys
        /\ \A key \in AllKeys : <<key, At(AllDicts[LastWith(key)], key)>> \in ret.out.m

\* {"a": 1, "b": 2} merged with {"a": 4, "c": 5} and then {"c": 6} gave
\* {"a": 4, "b": 2, "c": 6}.
C14_Witness ==
    /\ CalledStep.m = "_merge"
    /\ Len(CalledStep.others) = 2
    /\ data[ret.arg].m = {<<"a", PyInt(1)>>, <<"b", PyInt(2)>>}
    /\ ret.out.m = {<<"a", PyInt(4)>>, <<"b", PyInt(2)>>, <<"c", PyInt(6)>>}

\* The number of the dicts of a merge that have the key, and the sum of the
\* values they have at it.
RECURSIVE CountAt(_, _), TotalAt(_, _)
CountAt(dicts, key) ==
    IF dicts = <<>> THEN 0
    ELSE (IF key \in KeysOf(Head(dicts)) THEN 1 ELSE 0) + CountAt(Tail(dicts), key)
TotalAt(dicts, key) ==
    IF dicts = <<>> THEN 0
    ELSE (IF key \in KeysOf(Head(dicts)) THEN At(Head(dicts), key).n ELSE 0)
         + TotalAt(Tail(dicts), key)

\* C15: d.merge_with(f, *others) has every key of d or of any of the others
\* and no other key, each with f applied once to the list of all the values
\* the dicts have at it: their sum for sum, their number for len.
C15_MergeWithWholeList ==
    CalledStep.m = "dcz.merge_with" =>
        /\ ret.out.t = "dict"
        /\ KeysOf(ret.out.m) = AllKeys
        /\ \A key \in AllKeys :
              At(ret.out.m, key) = IF CalledStep.g = "sum" THEN PyInt(TotalAt(AllDicts, key))
                                  ELSE PyInt(CountAt(AllDicts, key))

\* {"a": 1} merged with len, {"a": 3} and {"a": 4, "c": 5} gave
\* {"a": 3, "c": 1}: len saw the three values of "a" at once.
C15_Witness ==
    /\ CalledStep.m = "dcz.merge_with"
    /\ CalledStep.g = "len"
    /\ data[ret.arg].m = {<<"a", PyInt(1)>>}
    /\ ret.out.m = {<<"a", PyInt(3)>>, <<"c", PyInt(1)>>}

\* C16: d.drop(*keys) returns a dict that is not d, with the items of d whose
\* key is not among keys; a key that d does not have changes nothing and
\* raises nothing.
C16_DropIgnoresAbsent ==
    CalledStep.m = "_drop" =>
        /\ ret.out.t = "dict"
        /\ ret.ref = 0
        /\ ret.out.m = {kv \in data[ret.arg].m : kv[1] \notin CalledStep.ks}

\* {"a": 1, "b": 2} with "a" and the absent "z" dropped gave {"b": 2}.
C16_Witness ==
    /\ CalledStep.m = "_drop"
    /\ CalledStep.ks = {"a", "z"}
    /\ data[ret.arg].m = {<<"a", PyInt(1)>>, <<"b", PyInt(2)>>}
    /\ ret.out.m = {<<"b", PyInt(2)>>}

-----------------------------------------------------------------------------
(* Claims about the wrappers.                                              *)

\* C2: no Iter/Struct wrapper mutates another wrapper's state.  For every
\* chaining call r = w.m(...) made so far on a wrapper w, evaluating r gives
\* the step of m applied to what w evaluated to when the call was made (w's
\* steps at derivation time followed by m, whatever else was derived from w
\* since), and evaluating w still gives what it gave before the call.
C2_NoWrapperMutatesAnother ==
    \A i \in DOMAIN made :
        (made[i].op # "init" /\ IsWrapper(made[i].cls)) =>
            /\ Result(data, wrappers, made[i].ret) = StepResult(made[i].step, made[i].before)
            /\ Result(data, wrappers, made[i].recv) = made[i].before

\* C3: Dict immutability.  After d2 = d.with_key(k, v) on a Struct wrapper,
\* d.unwrap() is the mapping it was before the call and d2.unwrap() is that
\* mapping with k set to v.
C3_WithKeyLeavesOriginal ==
    \A i \in DOMAIN made :
        (made[i].op = "dc.with_key" /\ made[i].cls = "Struct") =>
            /\ Result(data, wrappers, made[i].recv).m = made[i].before.m
            /\ Result(data, wrappers, made[i].ret).m =
                   Put(made[i].before.m, made[i].step.k, made[i].step.v)

\* C4: the object handed to a wrapper's constructor has, after any chaining
\* calls, unwrap() calls and expression calls, the contents it had when it
\* was handed over.
C4_ConstructorObjectUntouched ==
    \A i \in DOMAIN made :
        (made[i].op = "init" /\ IsWrapper(made[i].cls)) =>
            data[wrappers[made[i].ret].value] = made[i].before

\* Struct({"a": 1}).with_key("b", 2).unwrap() has returned {"a": 1, "b": 2}
\* and the constructor's dict is still {"a": 1}.
C4_Witness ==
    /\ ret.kind = "unwrap"
    /\ wrappers[ret.obj].cls = "Struct"
    /\ ret.out.m = {<<"a", PyInt(1)>>, <<"b", PyInt(2)>>}
    /\ data[wrappers[ret.obj].value].m = {<<"a", PyInt(1)>>}

-----------------------------------------------------------------------------
(* Claims about expressions and wrappers alike.  A run of SpecChain builds *)
(* expressions or builds wrappers.                                         *)

NextChain ==
    \/ wrappers = <<>> /\ Next
    \/ ops = <<>> /\ NextStruct

SpecChain == Init /\ [][NextChain]_vars

\* What the Struct expression p returns on the dict d.
CallResult(p, d) ==
    LET r == StructExpr_call(data, wrappers, p, d) IN r[1][r[2]]

\* The step chained last on a wrapper is applied last, to what the steps
\* chained before it return: right after r = w.m(...), r evaluates to the
\* step of m applied to what w evaluated to.  For a Struct expression, on
\* every dict.
WrapperLeftToRight ==
    made # <<>> =>
        LET e == made[Len(made)]
        IN /\ (e.op # "init" /\ IsWrapper(e.cls)) =>
                  Result(data, wrappers, e.ret) = StepResult(e.step, e.before)
           /\ (e.op # "init" /\ e.cls = "StructExpr") =>
                  \A d \in DOMAIN data :
                      data[d].t = "dict" =>
                          CallResult(e.ret, d) = StepResult(e.step, CallResult(e.recv, d))

\* C6: pipelines compose left to right: a wrapper or expression on which the
\* steps f1, ..., fn were chained in that order returns fn(...f2(f1(x))...),
\* the step chained first applied first, whichever methods added the steps.
C6_LeftToRight == ExprLeftToRight /\ WrapperLeftToRight

\* C6 witness: an Op with two chained steps whose order matters, op().add(2).mul(2):
\* (3 + 2) * 2 = 10, not 3 * 2 + 2.
C6_Witness ==
    \E p \in Ids :
        /\ ops[p].cls = "Op"
        /\ chain[p].steps = <<Step("add", PyInt(2)), Step("mul", PyInt(2))>>
        /\ Eval(ops, p, PyInt(3)) = PyInt(10)

-----------------------------------------------------------------------------
(* Claims about hint.                                                      *)

-----------------------------------------------------------------------------
(* Lazy iterators.  An Iter expression (pychain._mod) chains callables     *)
(* that wrap an iterable in map, filter and islice objects; nothing is     *)
(* computed until something asks the outermost iterator for its next       *)
(* element.  An iterator object:                                           *)
(*   k   : "count", "list" (a list iterator), "map", "filter", "islice"    *)
(*   up  : the iterator it draws from (0 for a source)                     *)
(*   g   : the callable of a map or filter                                 *)
(*   pos : count: the next value; list: the next index; islice: how many   *)
(*         elements are still to come                                      *)
(*   xs  : the list of a list iterator                                     *)

ItObj(k, up, g, pos, xs) == [k |-> k, up |-> up, g |-> g, pos |-> pos, xs |-> xs]

\* Predicates handed to filter(): lambda x: x % 2 == 1.
\* itertools.count(start), iter(xs), map(f, up), filter(p, up), islice(up, n)
py_count(start) == ItObj("count", 0, "", start, <<>>)
py_iter(xs) == ItObj("list", 0, "", 1, xs)
py_map(f, up) == ItObj("map", up, f, 0, <<>>)
py_filter(p, up) == ItObj("filter", up, p, 0, <<>>)
itz_take(n, up) == ItObj("islice", up, "", n, <<>>)

\* What next(it) gives: the heap after it, StopIteration or a value, and the
\* arguments the callables of map objects were called with on the way.  Or
\* nothing at all (hang): a filter that rejects every element of an endless
\* iterator never returns.
Pulled(heap, stop, val, fargs) ==
    [heap |-> heap, stop |-> stop, val |-> val, fargs |-> fargs, hang |-> FALSE]
Stopped(heap, fargs) == Pulled(heap, TRUE, NoVal, fargs)
Hung(heap, fargs) == [Stopped(heap, fargs) EXCEPT !.hang = TRUE]

count_next(heap, i) ==
    Pulled([heap EXCEPT ![i].pos = @ + 1], FALSE, PyInt(heap[i].pos), <<>>)

list_next(heap, i) ==
    IF heap[i].pos > Len(heap[i].xs) THEN Stopped(heap, <<>>)
    ELSE Pulled([heap EXCEPT ![i].pos = @ + 1], FALSE, heap[i].xs[heap[i].pos], <<>>)

\* map: one element of the upstream iterator (r is what next(up) gave), f
\* applied to it.
map_next(heap, i, r) ==
    IF r.stop THEN r
    ELSE Pulled(r.heap, FALSE, UserCall(heap[i].g, r.val), Append(r.fargs, r.val))

\* filter: whether the element r.val of the upstream iterator is the next
\* element of the filter.
filter_keeps_complement(heap, i, r) ==
    ~Truthy(UserCheck(heap[i].g, r.val))

filter_keeps(heap, i, r) ==
    Truthy(UserCheck(heap[i].g, r.val))

\* islice: stops, without asking upstream, once n elements were given.
islice_next_asks_first(heap, i, r) ==
    IF r.stop THEN r
    ELSE IF heap[i].pos = 0 THEN Stopped(r.heap, r.fargs)
    ELSE Pulled([r.heap EXCEPT ![i].pos = @ - 1], FALSE, r.val, r.fargs)

islice_next(heap, i, r) ==
    IF heap[i].pos = 0 THEN Stopped(heap, <<>>)
    ELSE IF r.stop THEN r
    ELSE Pulled([r.heap EXCEPT ![i].pos = @ - 1], FALSE, r.val, r.fargs)

\* A finite iterator of the model gives at most MaxLen elements, and the
\* elements an endless one gives to a filter are all odd, all even, or
\* alternate: a filter that has rejected MaxLen + 1 elements in a row will
\* reject every element to come.
RECURSIVE Pull(_, _), filter_next(_, _, _)
filter_next(heap, i, patience) ==
    LET r == Pull(heap, heap[i].up)
    IN IF r.stop THEN r
       ELSE IF filter_keeps(heap, i, r) THEN r
       ELSE IF patience = 0 THEN Hung(r.heap, r.fargs)
       ELSE LET more == filter_next(r.heap, i, patience - 1)
            IN [more EXCEPT !.fargs = r.fargs \o @]

\* next(it)
Pull(heap, i) ==
    LET o == heap[i]
    IN CASE o.k = "count" -> count_next(heap, i)
         [] o.k = "list" -> list_next(heap, i)
         [] o.k = "map" -> map_next(heap, i, Pull(heap, o.up))
         [] o.k = "islice" -> islice_next(heap, i, Pull(heap, o.up))
         [] o.k = "filter" -> filter_next(heap, i, MaxLen)

\* A step of an Iter expression: the callable a method hands to _do.
IStep(m, g, n) == [m |-> m, g |-> g, n |-> n]
\* partial(map, f), partial(filter, f), partial(itz.take, n)
Iter_map_expr(f) == IStep("map", f, 0)
Iter_filter_expr(f) == IStep("filter", f, 0)
Iter_head_expr(n) == IStep("take", "", n)

ApplyIterStep(heap, f, up) ==
    CASE f.m = "map" -> Alloc(heap, py_map(f.g, up))
      [] f.m = "filter" -> Alloc(heap, py_filter(f.g, up))
      [] f.m = "take" -> Alloc(heap, itz_take(f.n, up))

\* The expression's _pipeline applied to the iterator up: the steps wrap it,
\* first step innermost.
RECURSIVE Iter_pipeline(_, _, _)
Iter_pipeline(heap, up, steps) ==
    IF steps = <<>> THEN <<heap, up>>
    ELSE LET r == ApplyIterStep(heap, Head(steps), up)
         IN Iter_pipeline(r[1], r[2], Tail(steps))

\* The steps, lists and sources explored.
Elems == {PyInt(1), PyInt(2), PyInt(3)}
Lists == UNION {[1..k -> Elems] : k \in 0..MaxLen}
IterSteps ==
    {Iter_map_expr("inc"), Iter_filter_expr("odd")} \cup {Iter_head_expr(n) : n \in 0..MaxLen}

\* it(): an Iter expression around the identity.
IterConstructor ==
    /\ run.phase = "none"
    /\ run' = [run EXCEPT !.phase = "expr"]
    /\ UNCHANGED <<iters, seq, opVars, structVars>>

\* e.map(f), e.filter(p), e.head(n): self._do(f).  No iterator exists yet.
IterMethod(f) ==
    /\ run.phase = "expr"
    /\ Len(run.steps) < MaxLen
    /\ run' = [run EXCEPT !.steps = Append(@, f)]
    /\ UNCHANGED <<iters, seq, opVars, structVars>>

\* e(count(0)), e(xs): the pipeline wraps the source; still nothing is asked
\* of it.
IterCall(src, xs) ==
    /\ run.phase = "expr"
    /\ LET source == IF src = "count" THEN py_count(0) ELSE py_iter(xs)
           r == Iter_pipeline(<<source>>, 1, run.steps)
       IN /\ iters' = r[1]
          /\ run' = [run EXCEPT !.phase = "called", !.src = src, !.xs = xs, !.top = r[2]]
    /\ UNCHANGED <<seq, opVars, structVars>>

\* list(it) asks for one more element; StopIteration ends it, and a next()
\* that never returns leaves it hung.  An endless iterator is followed for
\* MaxLen + 1 elements.
ListNext ==
    /\ run.phase \in {"called", "list"}
    /\ Len(run.out) <= MaxLen
    /\ LET r == Pull(iters, run.top)
       IN /\ iters' = r.heap
          /\ run' = [run EXCEPT !.phase = IF r.hang THEN "hung"
                                          ELSE IF r.stop THEN "done" ELSE "list",
                                !.out = IF r.stop THEN @ ELSE Append(@, r.val),
                                !.fargs = @ \o r.fargs]
    /\ UNCHANGED <<seq, opVars, structVars>>

NextLazy ==
    \/ IterConstructor
    \/ \E f \in IterSteps : IterMethod(f)
    \/ IterCall("count", <<>>)
    \/ \E xs \in Lists : IterCall("list", xs)
    \/ ListNext

SpecLazy == Init /\ [][NextLazy]_vars

-----------------------------------------------------------------------------
(* Claims about Iter expressions.                                          *)

\* C12: laziness.  Building from_count(0).map(f), and any other pipeline,
\* calls f zero times as long as nothing is consumed; consuming
\* from_count(0).map(f).head(n) to the end calls f exactly n times, n >= 0.
C12_Laziness ==
    /\ run.phase \in {"none", "expr", "called"} => run.fargs = <<>>
    /\ \A n \in 0..MaxLen :
           (/\ run.phase = "done"
            /\ run.src = "count"
            /\ run.steps = <<Iter_map_expr("inc"), Iter_head_expr(n)>>) =>
               Len(run.fargs) = n

\* C12 witness: from_count(0).map(inc).head(2) was consumed to the end and
\* gave [1, 2].
C12_Witness ==
    /\ run.phase = "done"
    /\ run.src = "count"
    /\ run.steps = <<Iter_map_expr("inc"), Iter_head_expr(2)>>
    /\ run.out = <<PyInt(1), PyInt(2)>>

\* [x for x in xs if p(x)]
RECURSIVE SelectSeq2(_, _)
SelectSeq2(xs, p) ==
    IF xs = <<>> THEN <<>>
    ELSE (IF Truthy(UserCheck(p, Head(xs))) THEN <<Head(xs)>> ELSE <<>>) \o SelectSeq2(Tail(xs), p)

\* C13: map/filter law.  Iter(xs).filter(p).map(f) consumed into a list is
\* [f(x) for x in xs if p(x)]: same elements, same order, and f is called on
\* the elements that pass p and on no other.
C13_MapFilterLaw ==
    (/\ run.phase = "done"
     /\ run.src = "list"
     /\ run.steps = <<Iter_filter_expr("odd"), Iter_map_expr("inc")>>) =>
        LET kept == SelectSeq2(run.xs, "odd")
        IN /\ run.out = [i \in DOMAIN kept |-> UserCall("inc", kept[i])]
           /\ run.fargs = kept

\* C13 witness: filter(odd).map(inc) over [1, 2] was consumed and gave [2].
C13_Witness ==
    /\ run.phase = "done"
    /\ run.steps = <<Iter_filter_expr("odd"), Iter_map_expr("inc")>>
    /\ run.xs = <<PyInt(1), PyInt(2)>>
    /\ run.out = <<PyInt(2)>>

\* The one step of the wrapper that was unwrapped last, NoDStep if it has
\* none or several, and the contents of the dict the wrapper holds.
UnwrappedStep ==
    IF ret.kind = "unwrap" /\ Len(Concat(wrappers[ret.obj].pipeline)) = 1
    THEN Concat(wrappers[ret.obj].pipeline)[1] ELSE NoDStep
Held == data[wrappers[ret.obj].value].m

-----------------------------------------------------------------------------
(* Nested dicts: dict displays that may hold the dict made before them,  *)
(* Struct(d) on the last one, and one method of struct() called on it.     *)

\* A dict display: {}, {"b": 1}, or one with the dict made last in it.
DictLiteral(c) ==
    /\ Len(data) < MaxLen
    /\ data' = Append(data, DictObj(c))
    /\ UNCHANGED <<wrappers, made, ret, opVars, lazyVars>>

NextNested ==
    \/ wrappers = <<>> /\ \E c \in FlatDicts \cup NestedDicts(Len(data)) : DictLiteral(c)
    \/ wrappers = <<>> /\ \E c \in FlatDicts \cup NestedDicts(Len(data)) :
                             WrapperConstructor("Struct", DictObj(c))
    \/ Len(wrappers) = 1 /\ StructConstructor
    \/ Len(wrappers) = 2 /\ \E c \in NestedMethods("StructExpr") : WrapperMethod(2, c)
    \/ \E d \in DOMAIN data : StructExprCall(3, d)

SpecNested == Init /\ [][NextNested]_vars

\* C17: a call of update_in leaves every dict that was there before it, the
\* one it is called on and every dict in it, with the contents it had;
\* also when the path is not there and is made, and when the call raises.
C17_UpdateInLeavesSource ==
    [][(ret' # ret /\ ret'.kind = "call"
          /\ \E i \in DOMAIN Concat(wrappers[ret'.obj].pipeline) :
                 Concat(wrappers[ret'.obj].pipeline)[i].m = "dcz.update_in")
       => /\ \A i \in DOMAIN data : data'[i] = data[i]
          /\ ret'.ref = 0]_vars

\* {"a": {"a": {"b": 1}}} updated at b.a, which is not there, with
\* lambda x: 0 gave a dict with {"a": 0} at b next to the dict at a, and the
\* three dicts are as they were.
C17_Witness ==
    /\ CalledStep.m = "dcz.update_in"
    /\ CalledStep.g = "zero"
    /\ CalledStep.path = <<"b", "a">>
    /\ ret.out.t = "dict"
    /\ Len(data) = 3
    /\ Deep(data, ret.arg, <<>>) =
           {<<<<"a">>, PyRef(0)>>, <<<<"a", "a">>, PyRef(0)>>, <<<<"a", "a", "b">>, PyInt(1)>>}
    /\ LET r == update_in(data, ret.arg, CalledStep.path, CalledStep.g)
       IN Deep(r[1], r[2], <<>>) =
              Deep(data, ret.arg, <<>>)
              \cup {<<<<"b">>, PyRef(0)>>, <<<<"b", "a">>, PyInt(0)>>}

\* The keys of a path joined with ".".
RECURSIVE Joined(_)
Joined(path) ==
    IF Len(path) = 1 THEN path[1] ELSE path[1] \o "." \o Joined(Tail(path))

\* The leaves of the dict that was called, each with its path.
Leaves == {pv \in Deep(data, ret.arg, <<>>) : pv[2].t # "dict"}

\* C18: flatten_keys returns a dict with no dict in it that has one item for
\* each leaf of the source, the leaf at the keys of its path joined with ".",
\* and no other item.
C18_FlattenKeys ==
    CalledStep.m = "_flatten_recursive" =>
        /\ ret.out.t = "dict"
        /\ ret.out.m = {<<Joined(pv[1]), pv[2]>> : pv \in Leaves}
        /\ Cardinality(ret.out.m) = Cardinality(Leaves)

-----------------------------------------------------------------------------
(* clone().  Struct.clone and Iter.clone of the wrappers are               *)
(* self.__class__(fn.clone(self._value), fn.clone(self._pipeline));        *)
(* BaseExpr.clone of the expressions built on a list is                    *)
(* self._do(deepcopy).                                                     *)

\* A new wrapper of the same class around a copy of _value, with a copy of
\* the list _pipeline: <<data', wrappers', the new wrapper>>.
Struct_clone(heap, w, self) ==
    LET v == fn_clone(heap, w[self].value)
    IN <<v[1], Append(w, Wrapper(w[self].cls, v[2], w[self].pipeline)), Len(w) + 1>>

\* deepcopy is appended to the receiver's list and the receiver returned.
BaseExpr_clone(heap, w, self) ==
    LET r == BaseExpr_append(w, self, <<DStep("deepcopy", "", NoVal, "", 0)>>)
    IN <<heap, r[1], r[2]>>

\* struct(ktype, vtype) of the expressions built on a list: Struct([])
BaseExprConstructor ==
    /\ WrapperSize(wrappers) < MaxWrappers
    /\ wrappers' = Append(wrappers, Wrapper("BaseExpr", 0, <<>>))
    /\ made' = Append(made, Event("init", "BaseExpr", 0, Len(wrappers) + 1, NoDStep, NoData))
    /\ UNCHANGED <<data, ret, opVars, lazyVars>>

\* b = a.clone()
WrapperClone(p) ==
    /\ p \in DOMAIN wrappers
    /\ wrappers[p].cls # "StructExpr"
    /\ LET r == IF IsWrapper(wrappers[p].cls) THEN Struct_clone(data, wrappers, p)
                ELSE BaseExpr_clone(data, wrappers, p)
       IN /\ WrapperSize(r[2]) <= MaxWrappers
          /\ data' = r[1]
          /\ wrappers' = r[2]
          /\ made' = Append(made, Event("clone", wrappers[p].cls, p, r[3], NoDStep, NoData))
    /\ UNCHANGED <<ret, opVars, lazyVars>>

\* e.collect()(d): the callables of the list applied in turn.
BaseExprCollect(p, d) ==
    /\ p \in DOMAIN wrappers
    /\ wrappers[p].cls = "BaseExpr"
    /\ d \in DOMAIN data
    /\ LET r == StructExpr_call(data, wrappers, p, d)
       IN /\ data' = SubSeq(r[1], 1, Len(data))
          /\ ret' = [kind |-> "call", obj |-> p, arg |-> d,
                     ref |-> IF r[2] <= Len(data) THEN r[2] ELSE 0,
                     out |-> r[1][r[2]]]
    /\ UNCHANGED <<wrappers, made, opVars, lazyVars>>

NextClone ==
    \/ \E cls \in {"Struct", "Iter"} : \E c \in ConstructorData(cls) :
           data = <<>> /\ WrapperConstructor(cls, c)
    \/ BaseExprConstructor
    \/ \E p \in DOMAIN wrappers : WrapperClone(p)
    \/ \E p \in DOMAIN wrappers :
           \E c \in Methods(wrappers[p].cls) \cup ListMethods(wrappers[p].cls) :
               WrapperMethod(p, c)
    \/ \E p \in DOMAIN wrappers : WrapperUnwrap(p)
    \/ \E p \in DOMAIN wrappers : \E d \in DOMAIN data : BaseExprCollect(p, d)

SpecClone == Init /\ [][NextClone]_vars

\* What a wrapper gives: the contents unwrap() returns, or for an
\* expression the contents its call returns on each dict there is.
Gives(heap, w, p) ==
    IF IsWrapper(w[p].cls) THEN <<Result(heap, w, p)>>
    ELSE [d \in {x \in DOMAIN heap : heap[x].t = "dict"} |->
             LET r == StructExpr_call(heap, w, p, d) IN r[1][r[2]]]

\* After b = a.clone(), a call on b leaves what a gives as it was, and a
\* call on a leaves what b gives as it was.
Independent(classes) ==
    \A i \in DOMAIN made : (made[i].op = "clone" /\ made[i].cls \in classes) =>
        \A e \in {made'[j] : j \in DOMAIN made' \ DOMAIN made} :
            /\ e.recv = made[i].ret =>
                   Gives(data', wrappers', made[i].recv) = Gives(data, wrappers, made[i].recv)
            /\ e.recv = made[i].recv =>
                   Gives(data', wrappers', made[i].ret) = Gives(data, wrappers, made[i].ret)

\* C20: after b = a.clone(), a chaining call or a clone() on b leaves what
\* a.unwrap() returns as it was, and one on a leaves what b.unwrap() returns
\* as it was; for an expression, what its call returns.
C20_CloneIndependent == [][Independent({"Struct", "Iter", "BaseExpr"})]_vars

\* The same of the wrappers alone, which hold a value and have unwrap().
WrapperCloneIndependent == [][Independent({"Struct", "Iter"})]_vars

\* a = Struct({"a": 1}), b = a.clone(), b.with_key("b", 2): a.unwrap() gives
\* {"a": 1} and b.unwrap() {"a": 1, "b": 2}; b holds a dict of its own.
WrapperCloneWitness ==
    \E i, j \in DOMAIN made :
        /\ i < j
        /\ made[i].op = "clone"
        /\ made[j].op = "dc.with_key"
        /\ made[j].recv = made[i].ret
        /\ wrappers[made[i].ret].value # wrappers[made[i].recv].value
        /\ Result(data, wrappers, made[i].recv).m = {<<"a", PyInt(1)>>}
        /\ Result(data, wrappers, made[i].ret).m = {<<"a", PyInt(1)>>, <<"b", PyInt(2)>>}

-----------------------------------------------------------------------------
(* Iter expressions consumed whole.  What an iterable gives when it is      *)
(* consumed to the end: the elements, in order, and then either             *)
(* StopIteration (err = "") or the exception err.                           *)

Lazy(out, err) == [out |-> out, err |-> err]

Min(S) == CHOOSE k \in S : \A j \in S : k <= j

\* zip(*its, strict=strict), from its i-th tuple on.  Each tuple asks the
\* iterators in argument order; the first one that has no element ends the
\* zip.  With strict, a later iterator that ends first is "shorter", and when
\* the first iterator ends the others are asked once more and one that still
\* gives an element is "longer": ValueError either way.
RECURSIVE py_zip(_, _, _)
py_zip(its, strict, i) ==
    LET gives(k) == i <= Len(its[k].out)
        short == {k \in DOMAIN its : ~gives(k)}
        k == Min(short)
        more == {j \in DOMAIN its : j > 1 /\ (gives(j) \/ its[j].err # "")}
    IN IF short = {}
       THEN LET r == py_zip(its, strict, i + 1)
            IN Lazy(<<[j \in DOMAIN its |-> its[j].out[i]]>> \o r.out, r.err)
       ELSE IF its[k].err # "" THEN Lazy(<<>>, its[k].err)
       ELSE IF ~strict THEN Lazy(<<>>, "")
       ELSE IF k > 1 THEN Lazy(<<>>, "ValueError")
       ELSE IF more = {} THEN Lazy(<<>>, "")
       ELSE IF gives(Min(more)) THEN Lazy(<<>>, "ValueError")
       ELSE Lazy(<<>>, its[Min(more)].err)

\* The others of zip_with are lists.
AsLazy(others) == [j \in DOMAIN others |-> Lazy(others[j], "")]

\* zip that never checks the lengths.
_zip_with_unchecked(value, others, strict) ==
    py_zip(<<value>> \o AsLazy(others), FALSE, 1)

\* zip(value, *others, strict=strict)
_zip_with(value, others, strict) ==
    py_zip(<<value>> \o AsLazy(others), strict, 1)

\* A window that starts anew after each tuple.
sliding_window_disjoint(n, s) ==
    Lazy([i \in 1..(Len(s.out) \div n) |-> SubSeq(s.out, (i - 1) * n + 1, i * n)], s.err)

\* itz.sliding_window(n, seq), n >= 1: the tuples of n consecutive elements.
sliding_window(n, s) ==
    Lazy([i \in 1..(IF Len(s.out) < n THEN 0 ELSE Len(s.out) - n + 1) |->
              SubSeq(s.out, i, i + n - 1)], s.err)

\* on(x) of group_by(on).
KeyOf(on, x) == IF on = "odd" THEN UserCheck(on, x) ELSE UserCall(on, x)

\* d[key].append(item) of a dict kept as its items in insertion order.
RECURSIVE setdefault_append(_, _, _)
setdefault_append(d, key, item) ==
    IF d = <<>> THEN <<<<key, <<item>>>>>>
    ELSE IF Head(d)[1] = key THEN <<<<key, Append(Head(d)[2], item)>>>> \o Tail(d)
    ELSE <<Head(d)>> \o setdefault_append(Tail(d), key, item)

\* A groupby that keeps the last element of each key only.
RECURSIVE groupby_last(_, _)
groupby_last(key, s) ==
    IF s.err # "" THEN Lazy(<<>>, s.err)
    ELSE IF s.out = <<>> THEN Lazy(<<>>, "")
    ELSE LET n == Len(s.out)
             d == groupby_last(key, Lazy(SubSeq(s.out, 1, n - 1), "")).out
             k == KeyOf(key, s.out[n])
         IN Lazy(IF \E i \in DOMAIN d : d[i][1] = k
                 THEN [i \in DOMAIN d |-> IF d[i][1] = k THEN <<k, <<s.out[n]>>>> ELSE d[i]]
                 ELSE Append(d, <<k, <<s.out[n]>>>>), "")

\* itz.groupby(key, seq): consumes seq at once; a dict key -> list of the
\* elements with that key, in the order met.
RECURSIVE groupby(_, _)
groupby(key, s) ==
    IF s.err # "" THEN Lazy(<<>>, s.err)
    ELSE IF s.out = <<>> THEN Lazy(<<>>, "")
    ELSE LET n == Len(s.out)
             d == groupby(key, Lazy(SubSeq(s.out, 1, n - 1), "")).out
         IN Lazy(setdefault_append(d, KeyOf(key, s.out[n]), s.out[n]), "")

\* itz.concat(seqs)
RECURSIVE itz_concat(_)
itz_concat(seqs) == IF seqs = <<>> THEN <<>> ELSE Head(seqs) \o itz_concat(Tail(seqs))

\* itz.concat(map(lambda x: [x] * n, value))
_repeat(value, n) ==
    Lazy(itz_concat([i \in DOMAIN value.out |-> [j \in 1..n |-> value.out[i]]]), value.err)

\* A peek that hands back the iterator it advanced.
itz_peek_consuming(s) == [item |-> Head(s.out), rest |-> Lazy(Tail(s.out), s.err)]

\* itz.peek(seq) of a sequence that gives an element: the element, and an
\* iterator that gives it again before the rest.
itz_peek(s) == [item |-> Head(s.out), rest |-> Lazy(<<Head(s.out)>> \o Tail(s.out), s.err)]

\* _peek(seq, note): next() of peek raises what the sequence raises when it
\* gives nothing; otherwise one line is printed.
_peek(s, note, printed) ==
    IF s.out = <<>>
    THEN <<Lazy(<<>>, IF s.err # "" THEN s.err ELSE "StopIteration"), printed>>
    ELSE LET r == itz_peek(s)
         IN <<r.rest, Append(printed, [note |-> note, value |-> r.item])>>

\* A product with the receiver as outer loop.
product_receiver_outer(other, s) ==
    IF s.err # "" THEN Lazy(<<>>, s.err)
    ELSE Lazy(itz_concat([j \in DOMAIN s.out |->
                             [i \in DOMAIN other |-> <<other[i], s.out[j]>>]]), "")

\* itertools.product(other, seq): both consumed at once, other the outer loop.
product(other, s) ==
    IF s.err # "" THEN Lazy(<<>>, s.err)
    ELSE Lazy(itz_concat([i \in DOMAIN other |->
                             [j \in DOMAIN s.out |-> <<other[i], s.out[j]>>]]), "")

\* A step of the expression: the callable a method hands to _do.
SStep(m, g, n, others, strict) ==
    [m |-> m, g |-> g, n |-> n, others |-> others, strict |-> strict]
Iter_zip_with(others, strict) == SStep("_zip_with", "", 0, others, strict)
Iter_rolling(length) == SStep("itz.sliding_window", "", length, <<>>, FALSE)
Iter_group_by(on) == SStep("itz.groupby", on, 0, <<>>, FALSE)
Iter_repeat(n) == SStep("_repeat", "", n, <<>>, FALSE)
Iter_peek(note) == SStep("_peek", note, 0, <<>>, FALSE)
Iter_cross_join(other) == SStep("product", "", 0, <<other>>, FALSE)

\* f(s): the sequence the step gives and what has been printed.
ApplySeqStep(f, s, printed) ==
    CASE f.m = "_zip_with" -> <<_zip_with(s, f.others, f.strict), printed>>
      [] f.m = "itz.sliding_window" -> <<sliding_window(f.n, s), printed>>
      [] f.m = "itz.groupby" -> <<groupby(f.g, s), printed>>
      [] f.m = "_repeat" -> <<_repeat(s, f.n), printed>>
      [] f.m = "_peek" -> _peek(s, f.g, printed)
      [] f.m = "product" -> <<product(f.others[1], s), printed>>

\* The pipeline on xs, first step first: what each step gave, and stdout.
RECURSIVE RunSeq(_, _, _, _)
RunSeq(steps, s, outs, printed) ==
    IF steps = <<>> THEN <<outs, printed>>
    ELSE LET r == ApplySeqStep(Head(steps), s, printed)
         IN RunSeq(Tail(steps), r[1], Append(outs, r[1]), r[2])

\* The lists zipped and joined with: [7], [7, 8], ...
OtherLists == {[i \in 1..k |-> PyInt(6 + i)] : k \in 0..MaxLen}
ZipOthers ==
    {<<>>} \cup {<<a>> : a \in OtherLists} \cup {<<a, b>> : a, b \in OtherLists}
SeqSteps ==
    {Iter_zip_with(o, st) : o \in ZipOthers, st \in BOOLEAN}
        \cup {Iter_rolling(n) : n \in 1..(MaxLen + 1)}
        \cup {Iter_group_by(on) : on \in {"odd", "zero", "inc"}}
        \cup {Iter_repeat(n) : n \in 0..MaxLen}
        \cup {Iter_peek(note) : note \in {"", "a"}}
        \cup {Iter_cross_join(o) : o \in OtherLists}
\* The steps chained before the last one.
SeqPrefix ==
    {Iter_peek(""), Iter_repeat(2), Iter_zip_with(<<<<PyInt(7)>>>>, TRUE)}

\* it()
SeqConstructor ==
    /\ seq.phase = "none"
    /\ seq' = [seq EXCEPT !.phase = "expr"]
    /\ UNCHANGED <<iters, run, opVars, structVars>>

\* e.zip_with(others, strict), e.rolling(n), ...: self._do(f).  group_by is
\* given elements its key function takes.
SeqMethod(f) ==
    /\ seq.phase = "expr"
    /\ Len(seq.steps) < MaxLen
    /\ \A i \in DOMAIN seq.steps : seq.steps[i] \in SeqPrefix
    /\ f.m = "itz.groupby" => \A i \in DOMAIN seq.steps : seq.steps[i].m # "_zip_with"
    /\ seq' = [seq EXCEPT !.steps = Append(@, f)]
    /\ UNCHANGED <<iters, run, opVars, structVars>>

\* list(e(xs)): the pipeline is called on xs and its result consumed.
SeqToList(xs) ==
    /\ seq.phase = "expr"
    /\ seq.steps # <<>>
    /\ LET r == RunSeq(seq.steps, Lazy(xs, ""), <<>>, <<>>)
       IN seq' = [seq EXCEPT !.phase = "done", !.xs = xs, !.outs = r[1],
                             !.printed = r[2]]
    /\ UNCHANGED <<iters, run, opVars, structVars>>

NextSeq ==
    \/ SeqConstructor
    \/ \E f \in SeqSteps : SeqMethod(f)
    \/ \E xs \in Lists : SeqToList(xs)

SpecSeq == Init /\ [][NextSeq]_vars

\* The last step of the consumed pipeline, what it was given and what it gave.
LastStep == seq.steps[Len(seq.steps)]
LastIn == IF Len(seq.steps) = 1 THEN Lazy(seq.xs, "") ELSE seq.outs[Len(seq.steps) - 1]
LastOut == seq.outs[Len(seq.steps)]
Did(m) == seq.phase = "done" /\ LastStep.m = m


-----------------------------------------------------------------------------
(* Claims about the sequence methods of Iter.                              *)

\* The lengths of the operands of the zip that was done last.
ZipLens == {Len(LastIn.out)} \cup {Len(LastStep.others[j]) : j \in DOMAIN LastStep.others}

\* C21: zip strictness.  With strict=True, consuming the zip of a source and
\* others raises the length-mismatch ValueError exactly when they do not all
\* have the same length; with strict=False it never raises and gives as many
\* tuples as the shortest operand has elements.
C21_ZipStrictness ==
    (Did("_zip_with") /\ LastIn.err = "") =>
        IF LastStep.strict
        THEN /\ (LastOut.err = "ValueError") <=> (Cardinality(ZipLens) > 1)
             /\ LastOut.err \in {"", "ValueError"}
             /\ LastOut.err = "" => Len(LastOut.out) = Len(LastIn.out)
        ELSE /\ LastOut.err = ""
             /\ Len(LastOut.out) = Min(ZipLens)

\* C21 witness: it().zip_with([[7], [7, 8]], strict=True)([1, 2]) raised
\* ValueError when consumed.
C21_Witness ==
    /\ Did("_zip_with")
    /\ seq.steps = <<Iter_zip_with(<<<<PyInt(7)>>, <<PyInt(7), PyInt(8)>>>>, TRUE)>>
    /\ seq.xs = <<PyInt(1), PyInt(2)>>
    /\ LastOut.err = "ValueError"


\* C22: rolling(length) over a source of n elements gives, in order, exactly
\* n - length + 1 tuples of length consecutive elements, the i-th starting at
\* the i-th element, and nothing when n < length.
C22_RollingWindows ==
    (Did("itz.sliding_window") /\ LastIn.err = "") =>
        LET n == Len(LastIn.out)
            length == LastStep.n
        IN /\ LastOut.err = ""
           /\ Len(LastOut.out) = IF n < length THEN 0 ELSE n - length + 1
           /\ \A i \in DOMAIN LastOut.out :
                  /\ Len(LastOut.out[i]) = length
                  /\ \A j \in 1..length : LastOut.out[i][j] = LastIn.out[i + j - 1]

\* C22 witness: it().repeat(2).rolling(2)([1, 2]) gave the three windows of
\* [1, 1, 2, 2].
C22_Witness ==
    /\ Did("itz.sliding_window")
    /\ seq.steps = <<Iter_repeat(2), Iter_rolling(2)>>
    /\ seq.xs = <<PyInt(1), PyInt(2)>>
    /\ LastOut.out = <<<<PyInt(1), PyInt(1)>>, <<PyInt(1), PyInt(2)>>, <<PyInt(2), PyInt(2)>>>>

\* How many times e is in xs.
Count(xs, e) == Cardinality({i \in DOMAIN xs : xs[i] = e})

\* C23: group_by partitions the source: the value lists of the dict it
\* returns hold, together, exactly the multiset of the source's elements, and
\* each element is in the list of the key k(element).
C23_GroupByPartition ==
    (Did("itz.groupby") /\ LastIn.err = "") =>
        LET d == LastOut.out
        IN /\ LastOut.err = ""
           /\ \A i, j \in DOMAIN d : d[i][1] = d[j][1] => i = j
           /\ \A i \in DOMAIN d :
                  \A j \in DOMAIN d[i][2] : KeyOf(LastStep.g, d[i][2][j]) = d[i][1]
           /\ \A e \in Elems :
                  Count(LastIn.out, e) = Count(itz_concat([i \in DOMAIN d |-> d[i][2]]), e)

\* C23 witness: it().repeat(2).group_by(odd)([1, 2]) gave
\* {True: [1, 1], False: [2, 2]}.
C23_Witness ==
    /\ Did("itz.groupby")
    /\ seq.steps = <<Iter_repeat(2), Iter_group_by("odd")>>
    /\ LastOut.out = <<<<PyBool(TRUE), <<PyInt(1), PyInt(1)>>>>,
                       <<PyBool(FALSE), <<PyInt(2), PyInt(2)>>>>>>

\* C24: repeat(n) gives exactly n items, each of them the whole source
\* sequence: Iter([1, 2]).repeat(2) gives [[1, 2], [1, 2]].  The formula is
\* the count of the items.
C24_RepeatWhole ==
    (Did("_repeat") /\ LastIn.err = "") => Len(LastOut.out) = LastStep.n

\* What step i of the consumed pipeline was given.
In(i) == IF i = 1 THEN Lazy(seq.xs, "") ELSE seq.outs[i - 1]
\* The steps that were a peek at a sequence with a first element.
Peeks ==
    {i \in DOMAIN seq.outs : seq.steps[i].m = "_peek" /\ In(i).out # <<>>}

\* C26: peek(note) prints the first element without consuming it: the steps
\* after the peek are given exactly the elements the peek was given, in
\* order, the first one included.
C26_PeekKeepsFirst ==
    seq.phase = "done" =>
        \A i \in Peeks :
            /\ seq.outs[i] = In(i)
            /\ i < Len(seq.steps) =>
                   seq.outs[i + 1] = ApplySeqStep(seq.steps[i + 1], In(i), <<>>)[1]
            /\ LET k == Cardinality({j \in Peeks : j <= i})
               IN /\ k <= Len(seq.printed)
                  /\ seq.printed[k] = [note |-> seq.steps[i].g, value |-> Head(In(i).out)]

\* C26 witness: it().peek().rolling(2)([1, 2]) printed 1 and gave [(1, 2)].
C26_Witness ==
    /\ seq.phase = "done"
    /\ seq.steps = <<Iter_peek(""), Iter_rolling(2)>>
    /\ seq.xs = <<PyInt(1), PyInt(2)>>
    /\ seq.printed = <<[note |-> "", value |-> PyInt(1)]>>
    /\ LastOut = Lazy(<<<<PyInt(1), PyInt(2)>>>>, "")

\* C27: cross_join(other) gives the whole Cartesian product as tuples (o, x),
\* other the outer loop and the source the inner one.
C27_CrossJoinOrder ==
    (Did("product") /\ LastIn.err = "") =>
        LET other == LastStep.others[1]
            n == Len(LastIn.out)
        IN /\ LastOut.err = ""
           /\ Len(LastOut.out) = Len(other) * n
           /\ \A i \in DOMAIN other : \A j \in 1..n :
                  LastOut.out[(i - 1) * n + j] = <<other[i], LastIn.out[j]>>

\* C27 witness: it().cross_join([7, 8])([1, 2]) gave
\* [(7, 1), (7, 2), (8, 1), (8, 2)].
C27_Witness ==
    /\ Did("product")
    /\ seq.steps = <<Iter_cross_join(<<PyInt(7), PyInt(8)>>)>>
    /\ LastOut.out = <<<<PyInt(7), PyInt(1)>>, <<PyInt(7), PyInt(2)>>,
                       <<PyInt(8), PyInt(1)>>, <<PyInt(8), PyInt(2)>>>>


-----------------------------------------------------------------------------
(* SeqMut: a wrapper around a mutable sequence.  Its mutators are those of  *)
(* the list it wraps; the documentation says of each that it mutates the    *)
(* original sequence and returns self.                                      *)

\* list.insert(i, v), 0 <= i: past the end it appends.
list_insert(l, i, v) ==
    IF i >= Len(l) THEN Append(l, v)
    ELSE SubSeq(l, 1, i) \o <<v>> \o SubSeq(l, i + 1, Len(l))

\* list.remove(v): the first v goes; ValueError when there is none.
list_remove(l, v) ==
    LET at == {i \in DOMAIN l : l[i] = v}
    IN SubSeq(l, 1, Min(at) - 1) \o SubSeq(l, Min(at) + 1, Len(l))

list_reverse(l) == [i \in DOMAIN l |-> l[Len(l) + 1 - i]]

\* A call of a mutator: its name and arguments.
MStep(m, i, v, others) == [m |-> m, i |-> i, v |-> v, others |-> others]
SeqMut_append(value) == MStep("append", 0, value, <<>>)
SeqMut_insert(index, value) == MStep("insert", index, value, <<>>)
SeqMut_extend(others) == MStep("extend", 0, NoVal, others)
SeqMut_remove(value) == MStep("remove", 0, value, <<>>)
SeqMut_reverse == MStep("reverse", 0, NoVal, <<>>)
SeqMut_clear == MStep("clear", 0, NoVal, <<>>)

\* Whether the list method raises, and the list it leaves otherwise.
ListRaises(c, l) == c.m = "remove" /\ \A i \in DOMAIN l : l[i] # c.v
ListAfter(c, l) ==
    CASE c.m = "append" -> Append(l, c.v)
      [] c.m = "insert" -> list_insert(l, c.i, c.v)
      [] c.m = "extend" -> l \o itz_concat(c.others)
      [] c.m = "remove" -> list_remove(l, c.v)
      [] c.m = "reverse" -> list_reverse(l)
      [] c.m = "clear" -> <<>>

\* SeqMut(data): the wrapper keeps the sequence it is given.
SeqMut_init(_data) == Wrapper("SeqMut", _data, <<>>)

\* A mutator that works on a copy and wraps it anew.
SeqMut_mutator_copying(heap, w, self, c) ==
    LET l == heap[w[self].value].l
    IN IF ListRaises(c, l) THEN <<heap, w, 0>>
       ELSE <<Append(heap, ListObj(ListAfter(c, l))),
              Append(w, SeqMut_init(Len(heap) + 1)), Len(w) + 1>>

\* A mutator: the method of the wrapped sequence, then return self.  The
\* heap and the wrappers after it, and the wrapper returned (0: it raised).
SeqMut_mutator(heap, w, self, c) ==
    LET d == w[self].value
    IN IF ListRaises(c, heap[d].l) THEN <<heap, w, 0>>
       ELSE <<[heap EXCEPT ![d].l = ListAfter(c, @)], w, self>>

\* unwrap(): the wrapped sequence itself.
SeqMut_unwrap(w, self) == w[self].value

\* The calls explored.
MutCalls ==
    {SeqMut_append(PyInt(3)), SeqMut_insert(0, PyInt(0)), SeqMut_insert(1, PyInt(3)),
     SeqMut_extend(<<<<PyInt(3), PyInt(4)>>>>), SeqMut_remove(PyInt(2)),
     SeqMut_reverse, SeqMut_clear}

SeqMutConstructor(xs) ==
    /\ wrappers = <<>>
    /\ data' = Append(data, ListObj(xs))
    /\ wrappers' = Append(wrappers, SeqMut_init(Len(data) + 1))
    /\ made' = Append(made, Event("init", "SeqMut", 0, Len(wrappers) + 1, NoVal, ListObj(xs)))
    /\ UNCHANGED <<ret, opVars, lazyVars>>

\* w.append(v), w.insert(i, v), ...: at most MaxLen of them in a run.
SeqMutMethod(p, c) ==
    /\ p \in DOMAIN wrappers
    /\ wrappers[p].cls = "SeqMut"
    /\ Len(made) <= MaxLen
    /\ LET r == SeqMut_mutator(data, wrappers, p, c)
       IN /\ data' = r[1]
          /\ wrappers' = r[2]
          /\ made' = Append(made, Event(c.m, "SeqMut", p, r[3], c, data[wrappers[p].value]))
    /\ UNCHANGED <<ret, opVars, lazyVars>>

SeqMutUnwrap(p) ==
    /\ p \in DOMAIN wrappers
    /\ wrappers[p].cls = "SeqMut"
    /\ LET d == SeqMut_unwrap(wrappers, p)
       IN ret' = [kind |-> "unwrap", obj |-> p, arg |-> 0, ref |-> d, out |-> data[d]]
    /\ UNCHANGED <<data, wrappers, made, opVars, lazyVars>>

NextSeqMut ==
    \/ \E xs \in Lists : SeqMutConstructor(xs)
    \/ \E p \in DOMAIN wrappers, c \in MutCalls : SeqMutMethod(p, c)
    \/ \E p \in DOMAIN wrappers : SeqMutUnwrap(p)

SpecSeqMut == Init /\ [][NextSeqMut]_vars

\* The mutator calls made so far, in order.
CallsMade == [i \in 1..(Len(made) - 1) |-> made[i + 1]]
\* The list the calls leave of the list l: a call that raises leaves it as it is.
RECURSIVE Mutated(_, _)
Mutated(l, calls) ==
    IF calls = <<>> THEN l
    ELSE Mutated(IF ListRaises(Head(calls).step, l) THEN l
                 ELSE ListAfter(Head(calls).step, l), Tail(calls))

\* C25: each SeqMut mutator (append, insert, extend, remove, reverse, clear)
\* mutates the backing sequence in place and returns the same wrapper: the
\* list given to the constructor and the list unwrap() returns are one
\* object, and it holds all the mutations made, in order.
C25_SeqMutInPlace ==
    made # <<>> =>
        /\ Len(data) = 1
        /\ \A i \in DOMAIN CallsMade : CallsMade[i].ret \in {0, CallsMade[i].recv}
        /\ data[1].l = Mutated(made[1].before.l, CallsMade)
        /\ ret.kind = "unwrap" => ret.ref = 1

\* C25 witness: SeqMut([1, 2]).append(3).insert(0, 0) left [0, 1, 2, 3] in
\* the constructor's list, and unwrap() returned that list.
C25_Witness ==
    /\ Len(made) = 3
    /\ made[1].before = ListObj(<<PyInt(1), PyInt(2)>>)
    /\ made[2].step = SeqMut_append(PyInt(3)) /\ made[2].ret = 1
    /\ made[3].step = SeqMut_insert(0, PyInt(0)) /\ made[3].ret = 1
    /\ ret.kind = "unwrap" /\ ret.ref = 1
    /\ data[1].l = <<PyInt(0), PyInt(1), PyInt(2), PyInt(3)>>


-----------------------------------------------------------------------------
(* The order of the values merge_with hands to its function.               *)

NextMergeWith ==
    \/ wrappers = <<>> /\ \E c \in DictInputs : WrapperConstructor("Struct", DictObj(c))
    \/ Len(wrappers) = 1 /\ StructConstructor
    \/ Len(wrappers) = 2 /\ \E c \in OrderMethods("StructExpr") : WrapperMethod(2, c)
    \/ \E p \in DOMAIN wrappers : \E d \in DOMAIN data : StructExprCall(p, d)

SpecMergeWith == Init /\ [][NextMergeWith]_vars

\* C29: the list merge_with(combine_fn, *others) hands to combine_fn for a
\* key holds the values in dict order, the receiver's own value first and
\* then those of others in argument order: 'take the first' returns the
\* receiver's value for every key the receiver has.
C29_MergeWithReceiverFirst ==
    (CalledStep.m = "dcz.merge_with" /\ CalledStep.g = "first") =>
        /\ ret.out.t = "dict"
        /\ \A key \in AllKeys : At(ret.out.m, key) = ValuesAt(AllDicts, key)[1]


-----------------------------------------------------------------------------
(* What unwrap() returns, and the dict the Struct was built on.            *)

\* d = w.unwrap(); d[k] = v: the caller changes the mapping it was returned.
\* A mapping that is an object of the heap changes there.
ReturnedSetItem(k, v) ==
    /\ ret.kind = "unwrap"
    /\ ret.out.t = "dict"
    /\ data' = IF ret.ref = 0 THEN data ELSE [data EXCEPT ![ret.ref].m = Put(@, k, v)]
    /\ ret' = [ret EXCEPT !.kind = "mutated", !.out.m = Put(@, k, v)]
    /\ UNCHANGED <<wrappers, made, opVars, lazyVars>>

NextUnwrap ==
    \/ wrappers = <<>> /\ \E c \in DictInputs : WrapperConstructor("Struct", DictObj(c))
    \/ ret = NoRet /\ \E p \in DOMAIN wrappers :
           \E c \in Methods("Struct") \cup DictMethods("Struct") : WrapperMethod(p, c)
    \/ \E p \in DOMAIN wrappers : ret.kind # "unwrap" /\ WrapperUnwrap(p)
    \/ ReturnedSetItem("z", PyInt(9))

SpecUnwrap == Init /\ [][NextUnwrap]_vars

\* C30: the mapping Struct.unwrap() returns is not aliased to the wrapper's
\* source: whatever the length of the pipeline, the empty one included, a
\* change made to the returned mapping changes neither the mapping given to
\* the constructor nor what a later unwrap() of the wrapper returns.
C30_UnwrapNotAliased ==
    ret.kind = "mutated" =>
        /\ data[1] = made[1].before
        /\ Result(data, wrappers, ret.obj) = Result(<<made[1].before>>, wrappers, ret.obj)

=============================================================================
